---- MODULE Spec2Model ----
(***************************************************************************)
(* A model of the OpenWork front-end application component (App) and its   *)
(* extensions store: reactive signals, localStorage, and the asynchronous  *)
(* handlers that guard reset, update, engine reload, permission replies,   *)
(* plugin management and preference persistence.                           *)
(*                                                                         *)
(* Strings whose characters the code inspects (trim, case folding, split)  *)
(* are sequences of one-character strings; all other strings are TLA+      *)
(* strings.  A null reference to a string is the string Null.              *)
(***************************************************************************)
EXTENDS Integers, Sequences, FiniteSets, TLC

VARIABLES
    \* ---- runtime and shared signals
    isTauri,              \* isTauriRuntime(): fixed for the life of the process
    sessions,             \* ids of the listed sessions, sessions()
    sessionStatusById,    \* sessionStatusById()
    error,                \* error()
    localStorage,         \* window.localStorage: a function on the keys present
    \* ---- reset modal
    resetModalOpen,
    resetModalText,
    resetModalBusy,
    resetPc,              \* where the confirmReset call in flight is suspended
    resetStateCalls,      \* calls made to resetOpenworkState
    restarts,             \* times the app was started again (relaunch, reload, reopen)
    \* ---- preferences
    baseUrl,
    clientDirectory,
    engineSource,
    defaultModel,
    showThinking,
    modelVariant,
    updateAutoCheck,
    \* ---- the engine client, the prompt and the busy indicator
    client,               \* whether client() is set
    selectedSessionId,    \* selectedSessionId(), 0 for null
    prompt,
    busy,
    busyLabel,
    pending,              \* calls of each busy-setting handler awaiting the engine
    \* ---- the updater
    now,                  \* Date.now()
    updateStatus,
    pendingUpdate,        \* the version of the pending update, or Null
    updateEnv,
    mountPc,              \* where onMount is: awaiting updaterEnvironment(), or past it
    checks,               \* calls of checkForUpdates awaiting check(): quiet flag and prev
    downloads,            \* calls of downloadUpdate awaiting download(): lastCheckedAt
    installPc,            \* where the installUpdateAndRestart call in flight is suspended
    lastCheckAt,          \* history: when check() last resolved
    \* ---- engine reload
    mode,
    reloadRequired,
    reloadReasons,
    reloadLastTriggeredAt,
    reloadBusy,
    reloadError,
    reloadsInFlight,      \* calls of c.instance.dispose() not yet answered
    \* ---- permission prompts
    pendingPermissions,
    permissionReplyBusy,
    permissionReply,      \* the reply respondPermission is sending, or NoCall
    engineReplies,        \* the replies the engine received
    authorizedDirs,       \* the folders the workspace grants, workspaceStore.authorizedDirs()
    \* ---- plugins
    pluginScope,
    projectDir,           \* options.projectDir()
    configFiles,          \* the opencode.json of each scope
    pluginList,
    sidebarPluginList,
    pluginInput,
    pluginStatus,
    sidebarPluginStatus,
    pluginCall,           \* the addPlugin call whose await settles next, or NoCall
    otherPluginCall,      \* another addPlugin call that is awaiting, or NoCall
    \* ---- templates
    workspaceRoot,        \* workspaceStore.activeWorkspaceRoot()
    templates,
    workspaceTemplatesLoaded,
    globalTemplatesLoaded,
    templateModalOpen,
    templateDraftTitle,
    templateDraftDescription,
    templateDraftPrompt,
    templateDraftScope,
    loads,                \* calls of loadWorkspaceTemplates awaiting the file API
    templateOps,          \* calls of saveTemplate and deleteTemplate awaiting the desktop
    \* ---- MCP server names
    serverName,           \* the name given to validateMcpServerName
    validated,            \* what validateMcpServerName(serverName) returned or threw
    revalidated           \* what it returned for the name it had returned

coreVars  == <<isTauri, sessions, sessionStatusById, error, localStorage>>
resetVars == <<resetModalOpen, resetModalText, resetModalBusy,
               resetPc, resetStateCalls, restarts>>
prefVars  == <<baseUrl, clientDirectory, engineSource, defaultModel, showThinking,
               modelVariant, updateAutoCheck>>
busyVars  == <<client, selectedSessionId, prompt, busy, busyLabel, pending>>
updVars   == <<now, updateStatus, pendingUpdate, updateEnv, mountPc, checks,
               downloads, installPc, lastCheckAt>>
reloadVars == <<mode, reloadRequired, reloadReasons, reloadLastTriggeredAt,
                reloadBusy, reloadError, reloadsInFlight>>
permVars  == <<pendingPermissions, permissionReplyBusy, permissionReply,
               engineReplies, authorizedDirs>>
pluginVars == <<pluginScope, projectDir, configFiles, pluginList, sidebarPluginList,
                pluginInput, pluginStatus, sidebarPluginStatus, pluginCall,
                otherPluginCall>>
tplVars == <<workspaceRoot, templates, workspaceTemplatesLoaded, globalTemplatesLoaded,
             templateModalOpen, templateDraftTitle, templateDraftDescription,
             templateDraftPrompt, templateDraftScope, loads, templateOps>>
mcpVars == <<serverName, validated, revalidated>>
vars == <<coreVars, resetVars, prefVars, busyVars, updVars, reloadVars, permVars,
          pluginVars, tplVars, mcpVars>>

\* What the handlers of one part of the app leave alone.
exceptReset  == <<prefVars, busyVars, updVars, reloadVars, permVars, pluginVars,
                 tplVars, mcpVars>>
exceptPrefs  == <<resetVars, busyVars, updVars, reloadVars, permVars, pluginVars,
                 tplVars, mcpVars>>
exceptBusy   == <<resetVars, prefVars, updVars, reloadVars, permVars, pluginVars,
                 tplVars, mcpVars>>
exceptUpdate == <<resetVars, prefVars, busyVars, reloadVars, permVars, pluginVars,
                 tplVars, mcpVars>>
exceptReload == <<resetVars, prefVars, busyVars, updVars, permVars, pluginVars,
                 tplVars, mcpVars>>
exceptPlugins == <<resetVars, prefVars, busyVars, updVars, permVars, tplVars, mcpVars>>
exceptPermissions ==
    <<resetVars, prefVars, busyVars, updVars, reloadVars, pluginVars, tplVars, mcpVars>>
exceptTemplates ==
    <<resetVars, prefVars, updVars, reloadVars, permVars, pluginVars, mcpVars>>
exceptMcp ==
    <<coreVars, resetVars, prefVars, busyVars, updVars, reloadVars, permVars,
      pluginVars, tplVars>>

----------------------------------------------------------------------------
(* Bounds of the model *)

MaxSessions == 2
MaxRestarts == 1
MaxResetCalls == 1
MaxInFlight == 1
MaxDays == 1
MaxTemplates == 1
MaxNameLen == 3

----------------------------------------------------------------------------
(* Strings *)

Null == "<null>"                       \* null, where a TLA+ string is expected
NullStr == <<"<null>">>                \* null, where a character sequence is expected
Thrown == "<message of the thrown error>"

LowerCaseLetters ==
    <<"a","b","c","d","e","f","g","h","i","j","k","l","m",
      "n","o","p","q","r","s","t","u","v","w","x","y","z">>
UpperCaseLetters ==
    <<"A","B","C","D","E","F","G","H","I","J","K","L","M",
      "N","O","P","Q","R","S","T","U","V","W","X","Y","Z">>

ToUpperChar(c) ==
    IF \E i \in 1..26 : LowerCaseLetters[i] = c
    THEN UpperCaseLetters[CHOOSE i \in 1..26 : LowerCaseLetters[i] = c]
    ELSE c

ToLowerChar(c) ==
    IF \E i \in 1..26 : UpperCaseLetters[i] = c
    THEN LowerCaseLetters[CHOOSE i \in 1..26 : UpperCaseLetters[i] = c]
    ELSE c

\* String.prototype.toUpperCase / toLowerCase
ToUpperCase(s) == [i \in 1..Len(s) |-> ToUpperChar(s[i])]
ToLowerCase(s) == [i \in 1..Len(s) |-> ToLowerChar(s[i])]

IsWhiteSpace(c) == c \in {" ", "\t", "\n"}

RECURSIVE TrimStart(_)
TrimStart(s) ==
    IF s # <<>> /\ IsWhiteSpace(Head(s)) THEN TrimStart(Tail(s)) ELSE s

RECURSIVE TrimEnd(_)
TrimEnd(s) ==
    IF s # <<>> /\ IsWhiteSpace(s[Len(s)])
    THEN TrimEnd(SubSeq(s, 1, Len(s) - 1))
    ELSE s

\* String.prototype.trim
Trim(s) == TrimEnd(TrimStart(s))

----------------------------------------------------------------------------
(* Sessions and their statuses, as the session store reports them *)

SessionIds == 1..MaxSessions
SessionStatuses == {"idle", "running", "retry"}

anyActiveRunsRunningOnly ==
    \E s \in sessions : sessionStatusById[s] = "running"

anyActiveRuns ==
    \E s \in sessions :
        sessionStatusById[s] = "running" \/ sessionStatusById[s] = "retry"

\* A status event from the engine replaces one session's status.
SessionStatusEvent ==
    /\ \E id \in SessionIds, st \in SessionStatuses :
          /\ sessionStatusById[id] # st
          /\ sessionStatusById' = [sessionStatusById EXCEPT ![id] = st]
    /\ UNCHANGED <<isTauri, sessions, error, localStorage>>

\* loadSessions replaces the list of sessions.
LoadSessions ==
    /\ \E next \in SUBSET SessionIds :
          /\ next # sessions
          /\ sessions' = next
    /\ UNCHANGED <<isTauri, sessionStatusById, error, localStorage>>

----------------------------------------------------------------------------
(* localStorage keys *)

LegacyModeKey == "openwork_mode_pref"
ForeignKey == "theme"                  \* a key of another application on the origin
OpenworkKeys ==
    {"openwork.baseUrl", "openwork.clientDirectory", "openwork.engineSource",
     "openwork.defaultModel", "openwork.showThinking", "openwork.modelVariant",
     "openwork.updateAutoCheck", "openwork.updateLastCheckedAt",
     "openwork.projectDir"}

\* key.startsWith("openwork.")
StartsWithOpenwork(key) == key \in OpenworkKeys

Restrict(f, keys) == [k \in keys |-> f[k]]

\* Storage.getItem / setItem / removeItem
getItem(ls, key) == IF key \in DOMAIN ls THEN ls[key] ELSE NullStr
setItem(ls, key, value) ==
    [k \in DOMAIN ls \cup {key} |-> IF k = key THEN value ELSE ls[k]]
removeItem(ls, key) == Restrict(ls, DOMAIN ls \ {key})

clearOpenworkLocalStorageKeepLegacy(ls) ==
    Restrict(ls, {k \in DOMAIN ls : ~StartsWithOpenwork(k)})

clearOpenworkLocalStorage(ls) ==
    Restrict(ls, {k \in DOMAIN ls : ~StartsWithOpenwork(k) /\ k # LegacyModeKey})

----------------------------------------------------------------------------
(* Times, numbers as localStorage holds them, and the update status *)

DayMs == 24 * 60 * 60000
Times == {1, 2} \cup {d * DayMs + 2 : d \in 1..MaxDays}
NoTime == 0 - 1                        \* null, where a time is expected
NaN == 0 - 2

Digits == <<"0","1","2","3","4","5","6","7","8","9">>
IsDigit(c) == \E d \in 1..10 : Digits[d] = c
DigitValue(c) == (CHOOSE d \in 1..10 : Digits[d] = c) - 1

\* String(n), for an integer n >= 0
RECURSIVE NumberToString(_)
NumberToString(n) ==
    IF n < 10 THEN <<Digits[n + 1]>>
    ELSE NumberToString(n \div 10) \o <<Digits[(n % 10) + 1]>>

RECURSIVE DigitsToNumber(_)
DigitsToNumber(s) ==
    IF s = <<>> THEN 0
    ELSE 10 * DigitsToNumber(SubSeq(s, 1, Len(s) - 1)) + DigitValue(s[Len(s)])

\* Number(s), for the strings the model stores: decimal digits, surrounded by
\* white space or not, and strings that are no number at all.
StringToNumber(s) ==
    LET t == Trim(s) IN
    IF t = <<>> THEN 0
    ELSE IF \A i \in 1..Len(t) : IsDigit(t[i]) THEN DigitsToNumber(t)
    ELSE NaN

\* The values of updateStatus.  The fields no condition of the code reads
\* (date, notes, totalBytes, downloadedBytes) are left out.
NewVersion == "1.1.0"
Idle(t) == [state |-> "idle", lastCheckedAt |-> t]
Checking(t) == [state |-> "checking", startedAt |-> t]
Available(t, v) == [state |-> "available", lastCheckedAt |-> t, version |-> v]
Downloading(t, v) == [state |-> "downloading", lastCheckedAt |-> t, version |-> v]
Ready(t, v) == [state |-> "ready", lastCheckedAt |-> t, version |-> v]
Failed(t, m) == [state |-> "error", lastCheckedAt |-> t, message |-> m]

DefaultUpdateStatus == Idle(NoTime)

\* if (state.state === "idle" && state.lastCheckedAt) setItem(..., String(...))
persistUpdateLastCheckedAt(ls, state) ==
    IF state.state = "idle" /\ state.lastCheckedAt \notin {NoTime, 0}
    THEN setItem(ls, "openwork.updateLastCheckedAt", NumberToString(state.lastCheckedAt))
    ELSE ls

restoreUpdateStatus(ls) ==
    LET storedUpdateCheckedAt == getItem(ls, "openwork.updateLastCheckedAt") IN
    IF storedUpdateCheckedAt # NullStr /\ storedUpdateCheckedAt # <<>>
    THEN LET parsed == StringToNumber(storedUpdateCheckedAt) IN
         IF parsed # NaN /\ parsed > 0 THEN Idle(parsed) ELSE DefaultUpdateStatus
    ELSE DefaultUpdateStatus

----------------------------------------------------------------------------
(* Preferences: the signals, what the persistence effects write, and what *)
(* onMount restores                                                        *)

DefaultBaseUrl == <<"h","t","t","p",":","/","/","1","2","7",".","0",".","0",".","1",":","4","0","9","6">>
OtherBaseUrl == <<"h","t","t","p",":","/","/","h",":","1">>
DefaultClientDirectory == <<>>
EngineSourcePath == <<"p","a","t","h">>
EngineSourceSidecar == <<"s","i","d","e","c","a","r">>
DEFAULT_MODEL == [providerID |-> <<"o","p","e","n","c","o","d","e">>, modelID |-> <<"g","p","t","-","5","-","n","a","n","o">>]
DefaultShowThinking == FALSE
DefaultModelVariant == NullStr
DefaultUpdateAutoCheck == TRUE

MODEL_PREF_KEY == "openwork.defaultModel"
THINKING_PREF_KEY == "openwork.showThinking"
VARIANT_PREF_KEY == "openwork.modelVariant"

\* Values a user or the engine can put in the signals.
BaseUrlInputs == {<<>>, DefaultBaseUrl, OtherBaseUrl}
ClientDirectoryInputs == {<<>>, <<"/","w">>}
EngineSources == {EngineSourcePath, EngineSourceSidecar}
ModelOptions ==
    { [providerID |-> p, modelID |-> m] :
        p \in {<<"o","p","e","n","c","o","d","e">>, <<"o","r">>}, m \in {<<"g","p","t","-","5","-","n","a","n","o">>, <<"a","/","b">>} }
VariantInputs == {<<>>, <<" "," ">>, <<"h","i","g","h">>, <<" ","h","i","g","h"," ">>, <<"m","a","x">>}

\* formatModelRef: `${providerID}/${modelID}`
formatModelRef(model) == model.providerID \o <<"/">> \o model.modelID

\* The index of the first "/" of s, 0 when there is none.
IndexOfSlash(s) ==
    IF \E i \in 1..Len(s) : s[i] = "/"
    THEN CHOOSE i \in 1..Len(s) : s[i] = "/" /\ \A j \in 1..(i - 1) : s[j] # "/"
    ELSE 0

\* parseModelRef: null for a null or empty string, for a string without "/" and
\* for an empty provider; otherwise the text before the first "/" and the rest.
NoModel == [providerID |-> NullStr, modelID |-> NullStr]
parseModelRef(raw) ==
    IF raw = NullStr \/ raw = <<>> THEN NoModel
    ELSE LET i == IndexOfSlash(raw) IN
         IF i <= 1 THEN NoModel
         ELSE [providerID |-> SubSeq(raw, 1, i - 1),
               modelID |-> SubSeq(raw, i + 1, Len(raw))]

\* JSON.stringify of a boolean
JsonStringifyBoolean(b) == IF b THEN <<"t","r","u","e">> ELSE <<"f","a","l","s","e">>

\* JSON.parse, as far as onMount looks at it: "true", "false", or anything
\* else (another type, or a SyntaxError that is caught).
JsonParseBoolean(s) ==
    IF Trim(s) = <<"t","r","u","e">> THEN "true"
    ELSE IF Trim(s) = <<"f","a","l","s","e">> THEN "false"
    ELSE "other"

\* The persistence effects (createEffect), one per signal.
persistBaseUrl(ls, v) == setItem(ls, "openwork.baseUrl", v)
persistClientDirectory(ls, v) == setItem(ls, "openwork.clientDirectory", v)
persistEngineSource(ls, v) == setItem(ls, "openwork.engineSource", v)
persistDefaultModel(ls, v) == setItem(ls, MODEL_PREF_KEY, formatModelRef(v))
persistUpdateAutoCheckAsJson(ls, v) ==
    setItem(ls, "openwork.updateAutoCheck", JsonStringifyBoolean(v))

persistUpdateAutoCheck(ls, v) ==
    setItem(ls, "openwork.updateAutoCheck", IF v THEN <<"1">> ELSE <<"0">>)
persistShowThinking(ls, v) == setItem(ls, THINKING_PREF_KEY, JsonStringifyBoolean(v))
persistModelVariant(ls, v) ==
    IF v # NullStr /\ v # <<>>
    THEN setItem(ls, VARIANT_PREF_KEY, v)
    ELSE removeItem(ls, VARIANT_PREF_KEY)

\* onMount: what each signal holds after the stored preferences are restored
\* over the signal's initial value.
restoreBaseUrl(ls) ==
    LET storedBaseUrl == getItem(ls, "openwork.baseUrl") IN
    IF storedBaseUrl # NullStr /\ storedBaseUrl # <<>>
    THEN storedBaseUrl ELSE DefaultBaseUrl

restoreClientDirectory(ls) ==
    LET storedClientDir == getItem(ls, "openwork.clientDirectory") IN
    IF storedClientDir # NullStr /\ storedClientDir # <<>>
    THEN storedClientDir ELSE DefaultClientDirectory

restoreEngineSource(ls) ==
    LET storedEngineSource == getItem(ls, "openwork.engineSource") IN
    IF storedEngineSource = EngineSourcePath \/ storedEngineSource = EngineSourceSidecar
    THEN storedEngineSource ELSE EngineSourcePath

restoreDefaultModel(ls) ==
    LET parsedDefaultModel == parseModelRef(getItem(ls, MODEL_PREF_KEY)) IN
    IF parsedDefaultModel # NoModel THEN parsedDefaultModel ELSE DEFAULT_MODEL

restoreShowThinking(ls) ==
    LET storedThinking == getItem(ls, THINKING_PREF_KEY) IN
    IF storedThinking = NullStr THEN DefaultShowThinking
    ELSE LET parsed == JsonParseBoolean(storedThinking) IN
         IF parsed = "other" THEN DefaultShowThinking ELSE parsed = "true"

restoreModelVariant(ls) ==
    LET storedVariant == getItem(ls, VARIANT_PREF_KEY) IN
    IF storedVariant # NullStr /\ storedVariant # <<>> /\ Trim(storedVariant) # <<>>
    THEN Trim(storedVariant) ELSE DefaultModelVariant

restoreUpdateAutoCheck(ls) ==
    LET storedUpdateAutoCheck == getItem(ls, "openwork.updateAutoCheck") IN
    IF storedUpdateAutoCheck = <<"0">> \/ storedUpdateAutoCheck = <<"1">>
    THEN storedUpdateAutoCheck = <<"1">> ELSE DefaultUpdateAutoCheck

\* All the persistence effects, as they run once after onMount.
persistAll(ls, b, c, e, m, t, v, u) ==
    persistModelVariant(
      persistShowThinking(
        persistUpdateAutoCheck(
          persistDefaultModel(
            persistEngineSource(
              persistClientDirectory(
                persistBaseUrl(ls, b), c), e), m), u), t), v)

\* The storage once the app has started on storage ls: onMount has restored the
\* signals and every persistence effect has run.
storageAfterStart(ls) ==
    persistUpdateLastCheckedAt(
        persistAll(ls, restoreBaseUrl(ls), restoreClientDirectory(ls),
                   restoreEngineSource(ls), restoreDefaultModel(ls),
                   restoreShowThinking(ls), restoreModelVariant(ls),
                   restoreUpdateAutoCheck(ls)),
        restoreUpdateStatus(ls))

\* Storages the app may find at its first start: none, another application's
\* key, a remembered mode, and values no version of the effects would write.
StorageOfCheckedApp ==
    [k \in {"openwork.updateAutoCheck", "openwork.updateLastCheckedAt"} |->
        IF k = "openwork.updateAutoCheck" THEN <<"0">> ELSE <<" ", "1">>]

InitialStorages ==
    { <<>>,
      [k \in {ForeignKey} |-> <<"d">>],
      [k \in {LegacyModeKey, ForeignKey} |-> <<"h">>],
      [k \in {MODEL_PREF_KEY, THINKING_PREF_KEY, "openwork.updateAutoCheck",
               "openwork.updateLastCheckedAt"} |-> <<"x">>],
      StorageOfCheckedApp }

InitPrefs(ls) ==
    /\ baseUrl = restoreBaseUrl(ls)
    /\ clientDirectory = restoreClientDirectory(ls)
    /\ engineSource = restoreEngineSource(ls)
    /\ defaultModel = restoreDefaultModel(ls)
    /\ showThinking = restoreShowThinking(ls)
    /\ modelVariant = restoreModelVariant(ls)
    /\ updateAutoCheck = restoreUpdateAutoCheck(ls)

\* The signals of a freshly started app, restored from storage ls.
StartPrefs(ls) ==
    /\ baseUrl' = restoreBaseUrl(ls)
    /\ clientDirectory' = restoreClientDirectory(ls)
    /\ engineSource' = restoreEngineSource(ls)
    /\ defaultModel' = restoreDefaultModel(ls)
    /\ showThinking' = restoreShowThinking(ls)
    /\ modelVariant' = restoreModelVariant(ls)
    /\ updateAutoCheck' = restoreUpdateAutoCheck(ls)

\* onBaseUrlChange: setBaseUrl
SetBaseUrl ==
    /\ \E v \in BaseUrlInputs :
          /\ v # baseUrl
          /\ baseUrl' = v
          /\ localStorage' = persistBaseUrl(localStorage, v)
    /\ UNCHANGED <<isTauri, sessions, sessionStatusById, error>>
    /\ UNCHANGED <<clientDirectory, engineSource, defaultModel, showThinking,
                   modelVariant, updateAutoCheck>>

\* onClientDirectoryChange: setClientDirectory
SetClientDirectory ==
    /\ \E v \in ClientDirectoryInputs :
          /\ v # clientDirectory
          /\ clientDirectory' = v
          /\ localStorage' = persistClientDirectory(localStorage, v)
    /\ UNCHANGED <<isTauri, sessions, sessionStatusById, error>>
    /\ UNCHANGED <<baseUrl, engineSource, defaultModel, showThinking,
                   modelVariant, updateAutoCheck>>

SetEngineSource ==
    /\ \E v \in EngineSources :
          /\ v # engineSource
          /\ engineSource' = v
          /\ localStorage' = persistEngineSource(localStorage, v)
    /\ UNCHANGED <<isTauri, sessions, sessionStatusById, error>>
    /\ UNCHANGED <<baseUrl, clientDirectory, defaultModel, showThinking,
                   modelVariant, updateAutoCheck>>

\* applyModelSelection, the picker's target being the default model
applyModelSelection ==
    /\ \E next \in ModelOptions :
          /\ next # defaultModel
          /\ defaultModel' = next
          /\ localStorage' = persistDefaultModel(localStorage, next)
    /\ UNCHANGED <<isTauri, sessions, sessionStatusById, error>>
    /\ UNCHANGED <<baseUrl, clientDirectory, engineSource, showThinking,
                   modelVariant, updateAutoCheck>>

toggleShowThinking ==
    /\ showThinking' = ~showThinking
    /\ localStorage' = persistShowThinking(localStorage, showThinking')
    /\ UNCHANGED <<isTauri, sessions, sessionStatusById, error>>
    /\ UNCHANGED <<baseUrl, clientDirectory, engineSource, defaultModel,
                   modelVariant, updateAutoCheck>>

\* editModelVariant: the text the prompt returns, trimmed; blank clears.
editModelVariant ==
    /\ \E next \in VariantInputs :
          LET trimmed == Trim(next) IN
          /\ modelVariant' = IF trimmed # <<>> THEN trimmed ELSE NullStr
          /\ modelVariant' # modelVariant
          /\ localStorage' = persistModelVariant(localStorage, modelVariant')
    /\ UNCHANGED <<isTauri, sessions, sessionStatusById, error>>
    /\ UNCHANGED <<baseUrl, clientDirectory, engineSource, defaultModel,
                   showThinking, updateAutoCheck>>

toggleUpdateAutoCheck ==
    /\ updateAutoCheck' = ~updateAutoCheck
    /\ localStorage' = persistUpdateAutoCheck(localStorage, updateAutoCheck')
    /\ UNCHANGED <<isTauri, sessions, sessionStatusById, error>>
    /\ UNCHANGED <<baseUrl, clientDirectory, engineSource, defaultModel,
                   showThinking, modelVariant>>

----------------------------------------------------------------------------
(* The busy indicator and the handlers that set it *)

BusyHandlers == {"sendPrompt", "createSessionAndOpen", "runTemplate", "workspace"}
NothingPending == [h \in BusyHandlers |-> 0]
WorkspaceLabels == {"Connecting", "Starting engine", "Disconnecting"}
PromptInputs == {<<>>, <<" ">>, <<"h","i">>}

InitBusy ==
    /\ client = FALSE
    /\ selectedSessionId = 0
    /\ prompt = <<>>
    /\ busy = FALSE
    /\ busyLabel = Null
    /\ pending = NothingPending

StartBusy ==
    /\ client' = FALSE
    /\ selectedSessionId' = 0
    /\ prompt' = <<>>
    /\ busy' = FALSE
    /\ busyLabel' = Null
    /\ pending' = NothingPending

newTaskDisabledWhenBusy == busy

newTaskDisabled ==
    LET label == busyLabel IN
    IF busy /\ label = "Running" THEN FALSE
    ELSE IF busy /\ (label = "Connecting" \/ label = "Starting engine"
                     \/ label = "Disconnecting")
    THEN TRUE
    ELSE busy

setPrompt ==
    /\ \E text \in PromptInputs :
          /\ text # prompt
          /\ prompt' = text
    /\ UNCHANGED <<coreVars, client, selectedSessionId, busy, busyLabel, pending>>

\* The workspace store connects, starts the engine or disconnects: it sets
\* busy and one of its labels, and awaits the engine.
workspaceTransitionStarts ==
    /\ pending["workspace"] < MaxInFlight
    /\ \E label \in WorkspaceLabels :
          /\ busy' = TRUE
          /\ busyLabel' = label
    /\ error' = Null
    /\ pending' = [pending EXCEPT !["workspace"] = @ + 1]
    /\ UNCHANGED <<isTauri, sessions, sessionStatusById, localStorage>>
    /\ UNCHANGED <<client, selectedSessionId, prompt>>

\* ... and ends, connected or not.
workspaceTransitionEnds ==
    /\ pending["workspace"] > 0
    /\ pending' = [pending EXCEPT !["workspace"] = @ - 1]
    /\ \E connected \in BOOLEAN :
          /\ client' = connected
          /\ selectedSessionId' = IF connected THEN selectedSessionId ELSE 0
    /\ busy' = FALSE
    /\ busyLabel' = Null
    /\ UNCHANGED <<coreVars, prompt>>

\* sendPrompt, up to await c.session.promptAsync
sendPrompt ==
    /\ pending["sendPrompt"] < MaxInFlight
    /\ IF ~client \/ selectedSessionId = 0 \/ Trim(prompt) = <<>>
       THEN UNCHANGED <<coreVars, busyVars>>
       ELSE /\ busy' = TRUE
            /\ busyLabel' = "Running"
            /\ error' = Null
            /\ prompt' = <<>>
            /\ pending' = [pending EXCEPT !["sendPrompt"] = @ + 1]
            /\ UNCHANGED <<isTauri, sessions, sessionStatusById, localStorage>>
            /\ UNCHANGED <<client, selectedSessionId>>

\* sendPrompt: promptAsync resolved and loadSessions ran (its failure is
\* swallowed), or promptAsync rejected; then the finally block.
sendPromptReturns ==
    /\ pending["sendPrompt"] > 0
    /\ pending' = [pending EXCEPT !["sendPrompt"] = @ - 1]
    /\ \/ /\ sessions' \in SUBSET SessionIds
          /\ UNCHANGED error
       \/ /\ error' = Thrown
          /\ UNCHANGED sessions
    /\ busy' = FALSE
    /\ busyLabel' = Null
    /\ UNCHANGED <<isTauri, sessionStatusById, localStorage>>
    /\ UNCHANGED <<client, selectedSessionId, prompt>>

\* createSessionAndOpen, up to await c.session.create
createSessionAndOpen ==
    /\ pending["createSessionAndOpen"] < MaxInFlight
    /\ IF ~client
       THEN UNCHANGED <<coreVars, busyVars>>
       ELSE /\ busy' = TRUE
            /\ busyLabel' = "Creating session"
            /\ error' = Null
            /\ pending' = [pending EXCEPT !["createSessionAndOpen"] = @ + 1]
            /\ UNCHANGED <<isTauri, sessions, sessionStatusById, localStorage>>
            /\ UNCHANGED <<client, selectedSessionId, prompt>>

\* createSessionAndOpen: the session was created, listed and selected, or a
\* call rejected; then the finally block, which leaves the label.
createSessionAndOpenReturns ==
    /\ pending["createSessionAndOpen"] > 0
    /\ pending' = [pending EXCEPT !["createSessionAndOpen"] = @ - 1]
    /\ \/ \E id \in SessionIds :
             /\ sessions' = sessions \cup {id}
             /\ selectedSessionId' = id
             /\ UNCHANGED error
       \/ /\ error' = "Unknown error"
          /\ UNCHANGED <<sessions, selectedSessionId>>
    /\ busy' = FALSE
    /\ UNCHANGED <<isTauri, sessionStatusById, localStorage>>
    /\ UNCHANGED <<client, prompt, busyLabel>>

\* runTemplate, up to await c.session.create: busy is set, the label is not.
runTemplate ==
    /\ pending["runTemplate"] < MaxInFlight
    /\ IF ~client
       THEN UNCHANGED <<coreVars, busyVars>>
       ELSE /\ busy' = TRUE
            /\ error' = Null
            /\ pending' = [pending EXCEPT !["runTemplate"] = @ + 1]
            /\ UNCHANGED <<isTauri, sessions, sessionStatusById, localStorage>>
            /\ UNCHANGED <<client, selectedSessionId, prompt, busyLabel>>

runTemplateReturns ==
    /\ pending["runTemplate"] > 0
    /\ pending' = [pending EXCEPT !["runTemplate"] = @ - 1]
    /\ \/ \E id \in SessionIds :
             /\ sessions' = sessions \cup {id}
             /\ selectedSessionId' = id
             /\ UNCHANGED error
       \/ /\ error' = "Unknown error"
          /\ UNCHANGED <<sessions, selectedSessionId>>
    /\ busy' = FALSE
    /\ UNCHANGED <<isTauri, sessionStatusById, localStorage>>
    /\ UNCHANGED <<client, prompt, busyLabel>>

----------------------------------------------------------------------------
(* The updater: the part of onMount that starts the daily check,           *)
(* checkForUpdates, downloadUpdate and installUpdateAndRestart             *)

NoEnv == [null |-> TRUE]               \* updateEnv() before updaterEnvironment() resolved
UpdaterEnvironments ==
    { [supported |-> TRUE, reason |-> Null],
      [supported |-> FALSE, reason |-> Null],
      [supported |-> FALSE, reason |-> "OpenWork is not installed in a writable location."] }

\* Calls awaiting a promise: a slot per call in flight.
Slots == 1..MaxInFlight
NoCall == [null |-> TRUE]
NoCalls == [slot \in Slots |-> NoCall]
HasFreeSlot(calls) == \E slot \in Slots : calls[slot] = NoCall
FreeSlot(calls) ==
    CHOOSE slot \in Slots :
        /\ calls[slot] = NoCall
        /\ \A other \in Slots : calls[other] = NoCall => slot <= other
\* The calls left when the one in slot has settled: the later ones move up, so
\* the calls in flight are always in the first slots.
Settled(calls, slot) ==
    [s \in Slots |-> IF s < slot THEN calls[s]
                     ELSE IF s + 1 \in Slots THEN calls[s + 1]
                     ELSE NoCall]

InitUpdater(ls) ==
    /\ now = 1
    /\ updateStatus = restoreUpdateStatus(ls)
    /\ pendingUpdate = Null
    /\ updateEnv = NoEnv
    /\ mountPc = IF isTauri THEN "updaterEnvironment" ELSE "done"
    /\ checks = NoCalls
    /\ downloads = NoCalls
    /\ installPc = "idle"
    /\ lastCheckAt = restoreUpdateStatus(ls).lastCheckedAt

StartUpdater(ls) ==
    /\ updateStatus' = restoreUpdateStatus(ls)
    /\ pendingUpdate' = Null
    /\ updateEnv' = NoEnv
    /\ mountPc' = IF isTauri THEN "updaterEnvironment" ELSE "done"
    /\ checks' = NoCalls
    /\ downloads' = NoCalls
    /\ installPc' = "idle"
    /\ UNCHANGED <<now, lastCheckAt>>

\* Date.now() returns a later time.
timePasses ==
    /\ \E t \in Times :
          /\ t > now
          /\ now' = t
    /\ UNCHANGED coreVars
    /\ UNCHANGED <<updateStatus, pendingUpdate, updateEnv, mountPc, checks,
                   downloads, installPc, lastCheckAt>>

\* checkForUpdates({ quiet }), up to its await of check().  env is updateEnv()
\* as the call reads it: onMount sets it in the step that makes the call.
\* The call keeps prev, the status it found, only when it is quiet: the catch
\* block reads prev under if (options?.quiet) and nowhere else.
checkForUpdatesQuietAsLoud(env, quiet) ==
    IF ~isTauri
    THEN UNCHANGED <<updateStatus, pendingUpdate, checks, localStorage>>
    ELSE IF env # NoEnv /\ ~env.supported
    THEN /\ updateStatus' =
                Failed(IF updateStatus.state = "idle"
                       THEN updateStatus.lastCheckedAt ELSE NoTime,
                       IF env.reason # Null THEN env.reason
                       ELSE "Updates are not supported in this environment.")
         /\ UNCHANGED <<pendingUpdate, checks, localStorage>>
    ELSE /\ HasFreeSlot(checks)
         /\ checks' = [checks EXCEPT ![FreeSlot(checks)] = [quiet |-> FALSE]]
         /\ updateStatus' = Checking(now)
         /\ UNCHANGED <<pendingUpdate, localStorage>>

checkForUpdates(env, quiet) ==
    IF ~isTauri
    THEN UNCHANGED <<updateStatus, pendingUpdate, checks, localStorage>>
    ELSE IF env # NoEnv /\ ~env.supported
    THEN /\ IF ~quiet
            THEN updateStatus' =
                    Failed(IF updateStatus.state = "idle"
                           THEN updateStatus.lastCheckedAt ELSE NoTime,
                           IF env.reason # Null THEN env.reason
                           ELSE "Updates are not supported in this environment.")
            ELSE UNCHANGED updateStatus
         /\ UNCHANGED <<pendingUpdate, checks, localStorage>>
    ELSE /\ HasFreeSlot(checks)
         /\ checks' = [checks EXCEPT ![FreeSlot(checks)] =
                           IF quiet THEN [quiet |-> TRUE, prev |-> updateStatus]
                           ELSE [quiet |-> FALSE]]
         /\ updateStatus' = Checking(now)
         /\ UNCHANGED <<pendingUpdate, localStorage>>

\* The user asks for a check: checkForUpdates()
manualCheckForUpdates ==
    /\ checkForUpdates(updateEnv, FALSE)
    /\ UNCHANGED <<isTauri, sessions, sessionStatusById, error>>
    /\ UNCHANGED <<now, updateEnv, mountPc, downloads, installPc, lastCheckAt>>

\* check() resolved, with an update or with null.
checkResolves(slot, update) ==
    /\ checks[slot] # NoCall
    /\ pendingUpdate' = update
    /\ updateStatus' = IF update = Null THEN Idle(now) ELSE Available(now, update)
    /\ localStorage' = persistUpdateLastCheckedAt(localStorage, updateStatus')
    /\ checks' = Settled(checks, slot)
    /\ lastCheckAt' = now
    /\ UNCHANGED <<isTauri, sessions, sessionStatusById, error>>
    /\ UNCHANGED <<now, updateEnv, mountPc, downloads, installPc>>

checkForUpdatesResolves ==
    \E slot \in Slots, update \in {Null, NewVersion} : checkResolves(slot, update)

\* check() rejected: the catch block.
checkRejects(slot) ==
    /\ checks[slot] # NoCall
    /\ IF checks[slot].quiet
       THEN /\ updateStatus' = checks[slot].prev
            /\ UNCHANGED pendingUpdate
       ELSE /\ pendingUpdate' = Null
            /\ updateStatus' = Failed(NoTime, Thrown)
    /\ localStorage' = persistUpdateLastCheckedAt(localStorage, updateStatus')
    /\ checks' = Settled(checks, slot)
    /\ UNCHANGED <<isTauri, sessions, sessionStatusById, error>>
    /\ UNCHANGED <<now, updateEnv, mountPc, downloads, installPc, lastCheckAt>>

checkForUpdatesRejects == \E slot \in Slots : checkRejects(slot)

\* if (!lastCheckedAt || Date.now() - lastCheckedAt > 24 * 60 * 60_000), under
\* if (updateAutoCheck())
autoCheckDueWhateverTheSetting ==
    LET state == updateStatus
        lastCheckedAt == IF state.state = "idle" THEN state.lastCheckedAt ELSE NoTime
    IN  lastCheckedAt \in {NoTime, 0} \/ now - lastCheckedAt > DayMs

autoCheckDue ==
    /\ updateAutoCheck
    /\ LET state == updateStatus
           lastCheckedAt == IF state.state = "idle" THEN state.lastCheckedAt ELSE NoTime
       IN  lastCheckedAt \in {NoTime, 0} \/ now - lastCheckedAt > DayMs

\* onMount, from the moment updaterEnvironment() resolves (or rejects, which
\* leaves updateEnv as it is) to its end.
onMount ==
    /\ mountPc = "updaterEnvironment"
    /\ \E env \in UpdaterEnvironments \cup {updateEnv} :
          /\ updateEnv' = env
          /\ IF autoCheckDue
             THEN /\ checkForUpdates(env, TRUE)
                  /\ mountPc' = "checked"
             ELSE /\ mountPc' = "skipped"
                  /\ UNCHANGED <<updateStatus, pendingUpdate, checks, localStorage>>
    /\ UNCHANGED <<isTauri, sessions, sessionStatusById, error>>
    /\ UNCHANGED <<now, downloads, installPc, lastCheckAt>>

\* downloadUpdate, up to its await of download().
downloadUpdate ==
    /\ IF pendingUpdate = Null
       THEN UNCHANGED <<error, updateStatus, downloads>>
       ELSE /\ HasFreeSlot(downloads)
            /\ error' = Null
            /\ LET lastCheckedAt == IF updateStatus.state = "available"
                                    THEN updateStatus.lastCheckedAt ELSE now
               IN  /\ updateStatus' = Downloading(lastCheckedAt, pendingUpdate)
                   /\ downloads' = [downloads EXCEPT ![FreeSlot(downloads)] =
                         [lastCheckedAt |-> lastCheckedAt, version |-> pendingUpdate]]
    /\ UNCHANGED <<isTauri, sessions, sessionStatusById, localStorage>>
    /\ UNCHANGED <<now, pendingUpdate, updateEnv, mountPc, checks, installPc, lastCheckAt>>

downloadResolves ==
    /\ \E slot \in Slots :
          /\ downloads[slot] # NoCall
          /\ updateStatus' = Ready(downloads[slot].lastCheckedAt, downloads[slot].version)
          /\ downloads' = Settled(downloads, slot)
    /\ UNCHANGED coreVars
    /\ UNCHANGED <<now, pendingUpdate, updateEnv, mountPc, checks, installPc, lastCheckAt>>

downloadRejects ==
    /\ \E slot \in Slots :
          /\ downloads[slot] # NoCall
          /\ updateStatus' = Failed(downloads[slot].lastCheckedAt, Thrown)
          /\ downloads' = Settled(downloads, slot)
    /\ UNCHANGED coreVars
    /\ UNCHANGED <<now, pendingUpdate, updateEnv, mountPc, checks, installPc, lastCheckAt>>

\* installUpdateAndRestart, up to its await of install(): installPc = "install"
\* is the call of pending.update.install().
installUpdateAndRestartUnguarded ==
    /\ IF pendingUpdate = Null
       THEN UNCHANGED <<error, installPc>>
       ELSE /\ installPc = "idle"
            /\ restarts < MaxRestarts
            /\ error' = Null
            /\ installPc' = "install"
    /\ UNCHANGED <<isTauri, sessions, sessionStatusById, localStorage>>
    /\ UNCHANGED <<now, updateStatus, pendingUpdate, updateEnv, mountPc, checks,
                   downloads, lastCheckAt>>

installUpdateAndRestart ==
    /\ IF pendingUpdate = Null
       THEN UNCHANGED <<error, installPc>>
       ELSE IF anyActiveRuns
       THEN /\ error' = "Stop active runs before installing an update."
            /\ UNCHANGED installPc
       ELSE /\ installPc = "idle"
            /\ restarts < MaxRestarts
            /\ error' = Null
            /\ installPc' = "install"
    /\ UNCHANGED <<isTauri, sessions, sessionStatusById, localStorage>>
    /\ UNCHANGED <<now, updateStatus, pendingUpdate, updateEnv, mountPc, checks,
                   downloads, lastCheckAt>>

\* install() and close() resolved: relaunch() is called.
installResolves ==
    /\ installPc = "install"
    /\ installPc' = "relaunch"
    /\ UNCHANGED coreVars
    /\ UNCHANGED <<now, updateStatus, pendingUpdate, updateEnv, mountPc, checks,
                   downloads, lastCheckAt>>

\* install(), close() or relaunch() rejected: the catch block.
installRejects ==
    /\ installPc \in {"install", "relaunch"}
    /\ updateStatus' = Failed(NoTime, Thrown)
    /\ installPc' = "idle"
    /\ UNCHANGED coreVars
    /\ UNCHANGED <<now, pendingUpdate, updateEnv, mountPc, checks, downloads, lastCheckAt>>

----------------------------------------------------------------------------
(* Engine reload *)

Modes == {"host", "client"}
ReloadReasonInputs == {"plugins", "skills"}

InitReload ==
    /\ mode = Null
    /\ reloadRequired = FALSE
    /\ reloadReasons = <<>>
    /\ reloadLastTriggeredAt = NoTime
    /\ reloadBusy = FALSE
    /\ reloadError = Null
    /\ reloadsInFlight = 0

StartReload ==
    /\ mode' = Null
    /\ reloadRequired' = FALSE
    /\ reloadReasons' = <<>>
    /\ reloadLastTriggeredAt' = NoTime
    /\ reloadBusy' = FALSE
    /\ reloadError' = Null
    /\ reloadsInFlight' = 0

Includes(seq, x) == \E i \in 1..Len(seq) : seq[i] = x

\* markReloadRequired(reason), as the state change it makes
markReloadRequired(reason) ==
    /\ reloadRequired' = TRUE
    /\ reloadLastTriggeredAt' = now
    /\ reloadReasons' = IF Includes(reloadReasons, reason) THEN reloadReasons
                        ELSE Append(reloadReasons, reason)

\* The extensions store reports a change that needs a reload.
reloadBecomesRequired ==
    /\ \E reason \in ReloadReasonInputs : markReloadRequired(reason)
    /\ UNCHANGED <<mode, reloadBusy, reloadError, reloadsInFlight>>
    /\ UNCHANGED coreVars

\* onModeSelect: setMode(nextMode)
setMode ==
    /\ \E nextMode \in Modes :
          /\ nextMode # mode
          /\ mode' = nextMode
    /\ UNCHANGED <<reloadRequired, reloadReasons, reloadLastTriggeredAt, reloadBusy,
                   reloadError, reloadsInFlight>>
    /\ UNCHANGED coreVars

\* The workspace store connects to an engine, or drops the connection.
setClient ==
    /\ client' = ~client
    /\ selectedSessionId' = IF client' THEN selectedSessionId ELSE 0
    /\ UNCHANGED <<prompt, busy, busyLabel, pending>>
    /\ UNCHANGED coreVars

canReloadEngine ==
    /\ reloadRequired
    /\ client
    /\ ~reloadBusy
    /\ ~anyActiveRuns
    /\ mode = "host"

\* reloadEngineInstance, up to its await of c.instance.dispose():
\* reloadsInFlight counts the calls of dispose() not yet answered.
reloadEngineInstanceInAnyMode ==
    /\ IF ~client
       THEN UNCHANGED <<reloadBusy, reloadError, reloadsInFlight>>
       ELSE IF anyActiveRuns
       THEN /\ reloadError' = "A run is in progress. Stop it before reloading the engine."
            /\ UNCHANGED <<reloadBusy, reloadsInFlight>>
       ELSE /\ reloadsInFlight < MaxInFlight
            /\ reloadBusy' = TRUE
            /\ reloadError' = Null
            /\ reloadsInFlight' = reloadsInFlight + 1
    /\ UNCHANGED <<mode, reloadRequired, reloadReasons, reloadLastTriggeredAt>>
    /\ UNCHANGED coreVars

reloadEngineInstance ==
    /\ IF ~client
       THEN UNCHANGED <<reloadBusy, reloadError, reloadsInFlight>>
       ELSE IF mode # "host"
       THEN /\ reloadError' = "Reload is only available in Host mode."
            /\ UNCHANGED <<reloadBusy, reloadsInFlight>>
       ELSE IF anyActiveRuns
       THEN /\ reloadError' = "A run is in progress. Stop it before reloading the engine."
            /\ UNCHANGED <<reloadBusy, reloadsInFlight>>
       ELSE /\ reloadsInFlight < MaxInFlight
            /\ reloadBusy' = TRUE
            /\ reloadError' = Null
            /\ reloadsInFlight' = reloadsInFlight + 1
    /\ UNCHANGED <<mode, reloadRequired, reloadReasons, reloadLastTriggeredAt>>
    /\ UNCHANGED coreVars

\* dispose() and waitForHealthy() resolved; the provider, plugin and skill
\* lists are read again (their failures are swallowed) and clearReloadRequired
\* runs, then the finally block.
reloadEngineInstanceResolves ==
    /\ reloadsInFlight > 0
    /\ reloadsInFlight' = reloadsInFlight - 1
    /\ reloadRequired' = FALSE
    /\ reloadReasons' = <<>>
    /\ reloadError' = Null
    /\ reloadBusy' = FALSE
    /\ UNCHANGED <<mode, reloadLastTriggeredAt>>
    /\ UNCHANGED coreVars

\* dispose() or waitForHealthy() rejected: the catch and finally blocks.
reloadEngineInstanceRejects ==
    /\ reloadsInFlight > 0
    /\ reloadsInFlight' = reloadsInFlight - 1
    /\ reloadError' = Thrown
    /\ reloadBusy' = FALSE
    /\ UNCHANGED <<mode, reloadRequired, reloadReasons, reloadLastTriggeredAt>>
    /\ UNCHANGED coreVars

----------------------------------------------------------------------------
(* Permission prompts.  respondPermission belongs to the session store: it  *)
(* sends the reply to the engine and reads the pending requests again.     *)

RequestIds == {"per_1", "per_2"}
Replies == {"once", "always", "reject"}
Directories == {"/w", "/src"}

InitPermissions ==
    /\ pendingPermissions = {}
    /\ permissionReplyBusy = FALSE
    /\ permissionReply = NoCall
    /\ engineReplies = {}
    /\ authorizedDirs = {}

StartPermissions ==
    /\ pendingPermissions' = {}
    /\ permissionReplyBusy' = FALSE
    /\ permissionReply' = NoCall
    /\ UNCHANGED <<engineReplies, authorizedDirs>>

\* The engine asks for a permission (permission.asked event).
permissionAsked ==
    /\ client
    /\ \E id \in RequestIds :
          /\ id \notin pendingPermissions
          /\ \A r \in engineReplies : r.requestID # id
          /\ pendingPermissions' = pendingPermissions \cup {id}
    /\ UNCHANGED <<permissionReplyBusy, permissionReply, engineReplies, authorizedDirs>>
    /\ UNCHANGED coreVars

\* workspaceStore.addAuthorizedDir / removeAuthorizedDirAtIndex: the folders
\* the workspace grants, kept in the workspace's configuration.
addAuthorizedDir ==
    /\ \E dir \in Directories :
          /\ dir \notin authorizedDirs
          /\ authorizedDirs' = authorizedDirs \cup {dir}
    /\ UNCHANGED <<pendingPermissions, permissionReplyBusy, permissionReply, engineReplies>>
    /\ UNCHANGED coreVars

removeAuthorizedDir ==
    /\ \E dir \in authorizedDirs : authorizedDirs' = authorizedDirs \ {dir}
    /\ UNCHANGED <<pendingPermissions, permissionReplyBusy, permissionReply, engineReplies>>
    /\ UNCHANGED coreVars

\* respondPermission(requestID, reply), up to its await of the reply
respondPermission(requestID, reply) ==
    /\ IF ~client \/ permissionReplyBusy
       THEN UNCHANGED <<permissionReplyBusy, permissionReply, error>>
       ELSE /\ permissionReplyBusy' = TRUE
            /\ error' = Null
            /\ permissionReply' = [requestID |-> requestID, reply |-> reply]
    /\ UNCHANGED <<pendingPermissions, engineReplies, authorizedDirs>>
    /\ UNCHANGED <<isTauri, sessions, sessionStatusById, localStorage>>

\* A variant that also remembers the folder of an "always" reply.
respondPermissionAndAuthorize(requestID, reply) ==
    /\ IF ~client \/ permissionReplyBusy
       THEN UNCHANGED <<permissionReplyBusy, permissionReply, error>>
       ELSE /\ permissionReplyBusy' = TRUE
            /\ error' = Null
            /\ permissionReply' = [requestID |-> requestID, reply |-> reply]
    /\ authorizedDirs' = IF reply = "always" THEN authorizedDirs \cup {"/w"}
                         ELSE authorizedDirs
    /\ UNCHANGED <<pendingPermissions, engineReplies>>
    /\ UNCHANGED <<isTauri, sessions, sessionStatusById, localStorage>>

\* respondPermissionAndRemember: await respondPermission(requestID, reply)
respondPermissionAndRemember(requestID, reply) == respondPermission(requestID, reply)

\* The buttons of the permission prompt: Deny, Once, Allow for session.
denyOrAllowOnce ==
    \E id \in pendingPermissions, reply \in {"reject", "once"} :
        respondPermission(id, reply)

allowForSession ==
    \E id \in pendingPermissions : respondPermissionAndRemember(id, "always")

\* The engine took the reply; the pending requests are read again.
respondPermissionResolves ==
    /\ permissionReply # NoCall
    /\ engineReplies' = engineReplies \cup {permissionReply}
    /\ pendingPermissions' = pendingPermissions \ {permissionReply.requestID}
    /\ permissionReplyBusy' = FALSE
    /\ permissionReply' = NoCall
    /\ UNCHANGED authorizedDirs
    /\ UNCHANGED coreVars

respondPermissionRejects ==
    /\ permissionReply # NoCall
    /\ error' = Thrown
    /\ permissionReplyBusy' = FALSE
    /\ permissionReply' = NoCall
    /\ UNCHANGED <<pendingPermissions, engineReplies, authorizedDirs>>
    /\ UNCHANGED <<isTauri, sessions, sessionStatusById, localStorage>>

----------------------------------------------------------------------------
(* Plugins: the opencode.json of each scope and addPlugin.                 *)
(* A config file is missing, blank, or a JSON object: its top-level keys   *)
(* other than "plugin", whether it has a "plugin" key, and the plugin list. *)

PluginScopes == {"project", "global"}
ProjectDirInputs == {<<>>, <<"/","w">>}

MissingFile == [kind |-> "missing"]
BlankFile == [kind |-> "blank"]
JsonFile(keys, hasPlugin, plugin) ==
    [kind |-> "json", keys |-> keys, hasPlugin |-> hasPlugin, plugin |-> plugin]

PluginA == <<"a">>
PluginAVersioned == <<"A","@","1">>
PluginScoped == <<"@","s","/","b">>
PluginInputs == {<<>>, <<" ","a"," ">>, PluginAVersioned, PluginScoped}
SuggestedPlugins == {PluginA, PluginScoped}

\* The project configs the app may find: all of them duplicate-free.
InitialConfigs ==
    { MissingFile, BlankFile,
      JsonFile({"$schema", "model"}, FALSE, <<>>),
      JsonFile({"model"}, TRUE, <<PluginAVersioned>>) }

\* config.content ?? "" is empty after trim()
IsBlankContent(file) == file.kind \in {"missing", "blank"}

RECURSIVE LastIndexOf(_, _)
LastIndexOf(s, c) ==
    IF s = <<>> THEN 0
    ELSE IF s[Len(s)] = c THEN Len(s)
    ELSE LastIndexOf(SubSeq(s, 1, Len(s) - 1), c)

\* stripPluginVersion: the name without a trailing @version; the @ that opens
\* a scoped name is no version separator.
stripPluginVersion(spec) ==
    LET trimmed == Trim(spec)
        at == LastIndexOf(trimmed, "@")
    IN  IF at > 1 THEN SubSeq(trimmed, 1, at - 1) ELSE trimmed

\* parsePluginListFromContent: the entries of the "plugin" array, [] without one
parsePluginListFromContent(file) ==
    IF file.kind = "json" /\ file.hasPlugin THEN file.plugin ELSE <<>>

\* plugins.some((entry) => stripPluginVersion(entry).toLowerCase() === desired)
isAlreadyListedExactly(plugins, pluginName) ==
    \E i \in 1..Len(plugins) : plugins[i] = pluginName

isAlreadyListed(plugins, pluginName) ==
    LET desired == ToLowerCase(stripPluginVersion(pluginName)) IN
    \E i \in 1..Len(plugins) : ToLowerCase(stripPluginVersion(plugins[i])) = desired

\* const next = [...plugins, pluginName]
nextPluginListPrepended(plugins, pluginName) == <<pluginName>> \o plugins

nextPluginList(plugins, pluginName) == Append(plugins, pluginName)

\* applyEdits(raw, modify(raw, ["plugin"], next)): only the "plugin" property
\* of the text changes.
modifyPlugin(raw, next) == JsonFile(raw.keys, TRUE, next)

\* JSON.stringify({ $schema, plugin: [pluginName] })
newConfig(pluginName) == JsonFile({"$schema"}, TRUE, <<pluginName>>)

InitPlugins ==
    /\ pluginScope = "project"
    /\ projectDir = <<>>
    /\ \E config \in InitialConfigs :
          configFiles = [scope \in PluginScopes |->
                            IF scope = "project" THEN config ELSE MissingFile]
    /\ pluginList = <<>>
    /\ sidebarPluginList = <<>>
    /\ pluginInput = <<>>
    /\ pluginStatus = Null
    /\ sidebarPluginStatus = Null
    /\ pluginCall = NoCall
    /\ otherPluginCall = NoCall

\* The signals of the extensions store start again and no workspace is open
\* yet; the files stay.
StartPlugins ==
    /\ pluginScope' = "project"
    /\ projectDir' = <<>>
    /\ pluginList' = <<>>
    /\ sidebarPluginList' = <<>>
    /\ pluginInput' = <<>>
    /\ pluginStatus' = Null
    /\ sidebarPluginStatus' = Null
    /\ pluginCall' = NoCall
    /\ otherPluginCall' = NoCall
    /\ UNCHANGED configFiles

pluginFrame == <<isTauri, sessions, sessionStatusById, error, localStorage,
                 mode, reloadBusy, reloadError, reloadsInFlight, otherPluginCall>>
reloadMarks == <<reloadRequired, reloadReasons, reloadLastTriggeredAt>>

setPluginInput ==
    /\ \E value \in PluginInputs :
          /\ value # pluginInput
          /\ pluginInput' = value
    /\ UNCHANGED <<pluginScope, projectDir, configFiles, pluginList, sidebarPluginList,
                   pluginStatus, sidebarPluginStatus, pluginCall>>
    /\ UNCHANGED <<pluginFrame, reloadMarks>>

setPluginScope ==
    /\ \E scope \in PluginScopes :
          /\ scope # pluginScope
          /\ pluginScope' = scope
    /\ UNCHANGED <<projectDir, configFiles, pluginList, sidebarPluginList, pluginInput,
                   pluginStatus, sidebarPluginStatus, pluginCall>>
    /\ UNCHANGED <<pluginFrame, reloadMarks>>

\* The workspace store opens or closes a workspace; the effect that keeps the
\* legacy key openwork.projectDir runs.
setProjectDir ==
    /\ \E dir \in ProjectDirInputs :
          /\ dir # projectDir
          /\ projectDir' = dir
          /\ localStorage' = setItem(localStorage, "openwork.projectDir", dir)
    /\ UNCHANGED <<pluginScope, configFiles, pluginList, sidebarPluginList, pluginInput,
                   pluginStatus, sidebarPluginStatus, pluginCall>>
    /\ UNCHANGED <<isTauri, sessions, sessionStatusById, error, otherPluginCall>>
    /\ UNCHANGED <<mode, reloadBusy, reloadError, reloadsInFlight, reloadMarks>>

\* addPlugin(pluginNameOverride), up to its await of readOpencodeConfig;
\* NullStr stands for no override.  One call is in flight at a time.
addPlugin(pluginNameOverride) ==
    LET isManualInput == pluginNameOverride = NullStr
        pluginName == Trim(IF isManualInput THEN pluginInput ELSE pluginNameOverride)
        scope == pluginScope
        targetDir == Trim(projectDir)
    IN  /\ IF ~isTauri
           THEN /\ pluginStatus' = "Plugin management is only available in Host mode."
                /\ UNCHANGED pluginCall
           ELSE IF pluginName = <<>>
           THEN /\ pluginStatus' = IF isManualInput THEN "Enter a plugin package name."
                                   ELSE pluginStatus
                /\ UNCHANGED pluginCall
           ELSE IF scope = "project" /\ targetDir = <<>>
           THEN /\ pluginStatus' = "Pick a project folder to manage project plugins."
                /\ UNCHANGED pluginCall
           ELSE /\ pluginCall = NoCall
                /\ pluginStatus' = Null
                /\ pluginCall' = [pc |-> "readOpencodeConfig", pluginName |-> pluginName,
                                  isManualInput |-> isManualInput, scope |-> scope,
                                  updated |-> MissingFile]
        /\ UNCHANGED <<pluginScope, projectDir, configFiles, pluginList,
                       sidebarPluginList, pluginInput, sidebarPluginStatus>>
        /\ UNCHANGED <<pluginFrame, reloadMarks>>

addPluginFromInput == addPlugin(NullStr)

addSuggestedPlugin == \E packageName \in SuggestedPlugins : addPlugin(packageName)

\* readOpencodeConfig resolved: the duplicate check, and the text to write.
addPluginReads ==
    /\ pluginCall # NoCall
    /\ pluginCall.pc = "readOpencodeConfig"
    /\ LET raw == configFiles[pluginCall.scope]
           plugins == parsePluginListFromContent(raw)
       IN  IF IsBlankContent(raw)
           THEN /\ pluginCall' = [pluginCall EXCEPT !.pc = "writeOpencodeConfig",
                                     !.updated = newConfig(pluginCall.pluginName)]
                /\ UNCHANGED pluginStatus
           ELSE IF isAlreadyListed(plugins, pluginCall.pluginName)
           THEN /\ pluginStatus' = "Plugin already listed in opencode.json."
                /\ pluginCall' = NoCall
           ELSE /\ pluginCall' = [pluginCall EXCEPT !.pc = "writeOpencodeConfig",
                                     !.updated = modifyPlugin(raw,
                                         nextPluginList(plugins, pluginCall.pluginName))]
                /\ UNCHANGED pluginStatus
    /\ UNCHANGED <<pluginScope, projectDir, configFiles, pluginList, sidebarPluginList,
                   pluginInput, sidebarPluginStatus>>
    /\ UNCHANGED <<pluginFrame, reloadMarks>>

\* writeOpencodeConfig resolved: the file is written, a reload is required,
\* the input is cleared, and refreshPlugins(scope) runs up to its await.
addPluginWrites ==
    /\ pluginCall # NoCall
    /\ pluginCall.pc = "writeOpencodeConfig"
    /\ configFiles' = [configFiles EXCEPT ![pluginCall.scope] = pluginCall.updated]
    /\ markReloadRequired("plugins")
    /\ pluginInput' = IF pluginCall.isManualInput THEN <<>> ELSE pluginInput
    /\ IF pluginCall.scope = "project" /\ Trim(projectDir) = <<>>
       THEN /\ pluginStatus' = "Pick a project folder to manage project plugins."
            /\ sidebarPluginStatus' = "Pick a project folder to load active plugins."
            /\ pluginList' = <<>>
            /\ sidebarPluginList' = <<>>
            /\ pluginCall' = NoCall
       ELSE /\ pluginStatus' = Null
            /\ sidebarPluginStatus' = Null
            /\ pluginCall' = [pluginCall EXCEPT !.pc = "refreshPlugins"]
            /\ UNCHANGED <<pluginList, sidebarPluginList>>
    /\ UNCHANGED <<pluginScope, projectDir>>
    /\ UNCHANGED pluginFrame

\* refreshPlugins read the config again: the lists the views show.
addPluginRefreshes ==
    /\ pluginCall # NoCall
    /\ pluginCall.pc = "refreshPlugins"
    /\ LET config == configFiles[pluginCall.scope] IN
       IF config.kind = "missing"
       THEN /\ pluginList' = <<>>
            /\ pluginStatus' = "No opencode.json found yet. Add a plugin to create one."
            /\ sidebarPluginList' = <<>>
            /\ sidebarPluginStatus' = "No opencode.json in this workspace yet."
       ELSE /\ sidebarPluginList' = parsePluginListFromContent(config)
            /\ pluginList' = parsePluginListFromContent(config)
            /\ UNCHANGED <<pluginStatus, sidebarPluginStatus>>
    /\ pluginCall' = NoCall
    /\ UNCHANGED <<pluginScope, projectDir, configFiles, pluginInput>>
    /\ UNCHANGED <<pluginFrame, reloadMarks>>

\* An await rejected.  addPlugin's catch sets the status; refreshPlugins has a
\* catch of its own.
addPluginRejects ==
    /\ pluginCall # NoCall
    /\ IF pluginCall.pc = "refreshPlugins"
       THEN /\ pluginList' = <<>>
            /\ pluginStatus' = Thrown
            /\ sidebarPluginStatus' = "Failed to load active plugins."
            /\ sidebarPluginList' = <<>>
       ELSE /\ pluginStatus' = Thrown
            /\ UNCHANGED <<pluginList, sidebarPluginList, sidebarPluginStatus>>
    /\ pluginCall' = NoCall
    /\ UNCHANGED <<pluginScope, projectDir, configFiles, pluginInput>>
    /\ UNCHANGED <<pluginFrame, reloadMarks>>

\* Two calls of addPlugin are awaiting and the other one's await settles
\* next.  addPlugin sets no flag that keeps a second call from starting, and
\* the engine answers the awaits of two calls in either order.
otherCallSettlesNext ==
    /\ pluginCall # NoCall \/ otherPluginCall # NoCall
    /\ pluginCall # otherPluginCall
    /\ pluginCall' = otherPluginCall
    /\ otherPluginCall' = pluginCall
    /\ UNCHANGED <<pluginScope, projectDir, configFiles, pluginList, sidebarPluginList,
                   pluginInput, pluginStatus, sidebarPluginStatus>>
    /\ UNCHANGED <<isTauri, sessions, sessionStatusById, error, localStorage>>
    /\ UNCHANGED <<mode, reloadBusy, reloadError, reloadsInFlight, reloadMarks>>

----------------------------------------------------------------------------
(* Templates: the list, the draft in the modal, loadWorkspaceTemplates,     *)
(* saveTemplate and deleteTemplate.  The engine's file API and the desktop  *)
(* commands that write and delete template files are inputs: a listing of   *)
(* .openwork/templates is a sequence of nodes, each with what reading it    *)
(* returns.  The effect that writes the global templates under              *)
(* openwork.templates is left out: nothing in the sources reads that key.   *)

TemplateScopes == {"workspace", "global"}
WorkspaceRootInputs == {<<>>, <<" ">>, <<" ", "/", "w">>}
DraftTitleInputs == {<<" ">>, <<"T", " ">>}
DraftDescriptionInputs == {<<"d", " ">>}
DraftPromptInputs == {<<" ">>, <<" ", "p">>}
NewTemplateIds == {<<"n", "1">>, <<"n", "2">>, <<"n", "3">>}

DotJson == <<".", "j", "s", "o", "n">>
Untitled == <<"U", "n", "t", "i", "t", "l", "e", "d">>

\* String.prototype.endsWith
EndsWith(s, suffix) ==
    /\ Len(suffix) <= Len(s)
    /\ SubSeq(s, Len(s) - Len(suffix) + 1, Len(s)) = suffix

\* name.replace(/\.json$/i, "")
StripJsonSuffix(name) ==
    IF EndsWith(ToLowerCase(name), DotJson)
    THEN SubSeq(name, 1, Len(name) - Len(DotJson))
    ELSE name

\* What safeParseJson returns for a file: null, or an object whose fields are
\* NullStr where they are not strings and NoTime where createdAt is no number.
NoJson == [null |-> TRUE]
Json(id, title, text, createdAt) ==
    [id |-> id, title |-> title, description |-> NullStr, prompt |-> text,
     createdAt |-> createdAt]
TextFile(name, parsed) ==
    [name |-> name, type |-> "file", ignored |-> FALSE,
     content |-> [type |-> "text", parsed |-> parsed]]

FileOld == TextFile(<<"a", ".", "j", "s", "o", "n">>, Json(<<"o">>, <<"O">>, <<"p">>, 1))
FileNew == TextFile(<<"B", ".", "J", "S", "O", "N">>, Json(NullStr, NullStr, <<"q">>, 2))
FileBlank == TextFile(<<"c", ".", "j", "s", "o", "n">>, Json(<<"c">>, <<"C">>, <<" ">>, 3))
FileNoPrompt == TextFile(<<"d", ".", "j", "s", "o", "n">>, Json(<<"d">>, <<"D">>, NullStr, 3))
FileUndated == TextFile(<<"e", ".", "j", "s", "o", "n">>, Json(<<"e">>, <<"E">>, <<"p">>, NoTime))
FileBroken == TextFile(<<"f", ".", "j", "s", "o", "n">>, NoJson)
FileBinary == [FileOld EXCEPT !.name = <<"g", ".", "j", "s", "o", "n">>,
                              !.content = [type |-> "binary", parsed |-> NoJson]]
FileText == [FileOld EXCEPT !.name = <<"h", ".", "t", "x", "t">>]
FileIgnored == [FileOld EXCEPT !.name = <<"i", ".", "j", "s", "o", "n">>, !.ignored = TRUE]
FileDirectory == [FileOld EXCEPT !.name = <<"j", ".", "j", "s", "o", "n">>,
                                 !.type = "directory"]

TemplateListings ==
    { <<>>,
      <<FileOld, FileBlank, FileNew>>,
      <<FileText, FileIgnored, FileNoPrompt, FileDirectory, FileUndated>>,
      <<FileBinary, FileBroken, FileOld>> }

\* nodes.filter(file, not ignored).filter(name ends with .json)
jsonFiles(nodes) ==
    SelectSeq(nodes, LAMBDA n : /\ n.type = "file"
                                /\ ~n.ignored
                                /\ EndsWith(ToLowerCase(n.name), DotJson))

\* The body of the loop over jsonFiles: loaded after the file node was read
\* at time t.
pushLoaded(loaded, node, t) ==
    IF node.content.type # "text" THEN loaded
    ELSE IF node.content.parsed = NoJson THEN loaded
    ELSE LET parsed == node.content.parsed
             title == IF parsed.title # NullStr THEN parsed.title ELSE Untitled
             promptText == IF parsed.prompt # NullStr THEN parsed.prompt ELSE <<>>
         IN  IF Trim(promptText) = <<>> THEN loaded
             ELSE Append(loaded,
                    [id |-> IF parsed.id # NullStr THEN parsed.id
                            ELSE StripJsonSuffix(node.name),
                     title |-> title,
                     description |-> IF parsed.description # NullStr
                                     THEN parsed.description ELSE <<>>,
                     prompt |-> promptText,
                     createdAt |-> IF parsed.createdAt # NoTime
                                   THEN parsed.createdAt ELSE t,
                     scope |-> "workspace"])

\* loaded.slice().sort((a, b) => b.createdAt - a.createdAt): the sort is
\* stable, so an element goes behind those that are not older than it.
RECURSIVE sortByCreatedAtDescending(_)
sortByCreatedAtDescending(list) ==
    IF list = <<>> THEN <<>>
    ELSE LET sorted == sortByCreatedAtDescending(SubSeq(list, 1, Len(list) - 1))
             last == list[Len(list)]
             ahead == SelectSeq(sorted, LAMBDA t : t.createdAt >= last.createdAt)
             behind == SelectSeq(sorted, LAMBDA t : t.createdAt < last.createdAt)
         IN  ahead \o <<last>> \o behind

\* The mutant of the sort: the order of the listing.
unsorted(list) == list

globalsOf(list) == SelectSeq(list, LAMBDA t : t.scope = "global")
workspaceOf(list) == SelectSeq(list, LAMBDA t : t.scope = "workspace")

InitTemplateList ==
    /\ workspaceRoot = <<>>
    /\ templates = <<>>
    /\ workspaceTemplatesLoaded = FALSE
    /\ globalTemplatesLoaded = isTauri
    /\ loads = NoCalls
    /\ templateOps = NoCalls

InitTemplates ==
    /\ InitTemplateList
    /\ templateModalOpen = FALSE
    /\ templateDraftTitle = <<>>
    /\ templateDraftDescription = <<>>
    /\ templateDraftPrompt = <<>>
    /\ templateDraftScope = "workspace"

StartTemplates ==
    /\ workspaceRoot' = <<>>
    /\ templates' = <<>>
    /\ workspaceTemplatesLoaded' = FALSE
    /\ globalTemplatesLoaded' = isTauri
    /\ templateModalOpen' = FALSE
    /\ templateDraftTitle' = <<>>
    /\ templateDraftDescription' = <<>>
    /\ templateDraftPrompt' = <<>>
    /\ templateDraftScope' = "workspace"
    /\ loads' = NoCalls
    /\ templateOps' = NoCalls

draftVars == <<templateModalOpen, templateDraftTitle, templateDraftDescription,
               templateDraftPrompt, templateDraftScope>>

\* The workspace store activates a workspace, or none.
setActiveWorkspaceRoot ==
    /\ \E root \in WorkspaceRootInputs :
          /\ root # workspaceRoot
          /\ workspaceRoot' = root
    /\ UNCHANGED <<coreVars, busyVars>>
    /\ UNCHANGED <<templates, workspaceTemplatesLoaded, globalTemplatesLoaded, draftVars,
                   loads, templateOps>>

\* openTemplateModal: the draft is seeded from the selected session and the
\* prompt, its scope is "workspace", and the modal opens.
openTemplateModal ==
    /\ ~templateModalOpen
    /\ \E title \in DraftTitleInputs, text \in DraftPromptInputs :
          /\ templateDraftTitle' = title
          /\ templateDraftPrompt' = text
    /\ templateDraftDescription' = <<>>
    /\ templateDraftScope' = "workspace"
    /\ templateModalOpen' = TRUE
    /\ UNCHANGED <<coreVars, busyVars>>
    /\ UNCHANGED <<workspaceRoot, templates, workspaceTemplatesLoaded,
                   globalTemplatesLoaded, loads, templateOps>>

\* onClose of the modal
closeTemplateModal ==
    /\ templateModalOpen
    /\ templateModalOpen' = FALSE
    /\ UNCHANGED <<coreVars, busyVars>>
    /\ UNCHANGED <<workspaceRoot, templates, workspaceTemplatesLoaded,
                   globalTemplatesLoaded, templateDraftTitle, templateDraftDescription,
                   templateDraftPrompt, templateDraftScope, loads, templateOps>>

\* The fields of the modal: setTemplateDraftTitle, setTemplateDraftDescription,
\* setTemplateDraftPrompt and setTemplateDraftScope.
setTemplateDraft ==
    /\ templateModalOpen
    /\ \/ /\ \E title \in DraftTitleInputs :
                /\ title # templateDraftTitle
                /\ templateDraftTitle' = title
          /\ UNCHANGED <<templateDraftDescription, templateDraftPrompt, templateDraftScope>>
       \/ /\ \E description \in DraftDescriptionInputs :
                /\ description # templateDraftDescription
                /\ templateDraftDescription' = description
          /\ UNCHANGED <<templateDraftTitle, templateDraftPrompt, templateDraftScope>>
       \/ /\ \E text \in DraftPromptInputs :
                /\ text # templateDraftPrompt
                /\ templateDraftPrompt' = text
          /\ UNCHANGED <<templateDraftTitle, templateDraftDescription, templateDraftScope>>
       \/ /\ \E scope \in TemplateScopes :
                /\ scope # templateDraftScope
                /\ templateDraftScope' = scope
          /\ UNCHANGED <<templateDraftTitle, templateDraftDescription, templateDraftPrompt>>
    /\ UNCHANGED <<coreVars, busyVars>>
    /\ UNCHANGED <<workspaceRoot, templates, workspaceTemplatesLoaded,
                   globalTemplatesLoaded, templateModalOpen, loads, templateOps>>

InFlight(calls) == Cardinality({slot \in Slots : calls[slot] # NoCall})

\* loadWorkspaceTemplates returns to the handler that awaited it: saveTemplate
\* closes the modal, and its finally block, like deleteTemplate's, clears busy.
loadReturnsTo(caller) ==
    /\ templateModalOpen' = IF caller = "saveTemplate" THEN FALSE ELSE templateModalOpen
    /\ IF caller = "user"
       THEN UNCHANGED <<busy, busyLabel>>
       ELSE /\ busy' = FALSE
            /\ busyLabel' = Null

\* loadWorkspaceTemplates(options), up to its await of c.file.list; option is
\* options.workspaceRoot, NullStr when it is not given.
startLoad(option, quiet, caller) ==
    LET root == Trim(IF option # NullStr THEN option ELSE workspaceRoot)
    IN  IF ~client \/ root = <<>>
        THEN /\ loadReturnsTo(caller)
             /\ UNCHANGED loads
        ELSE /\ HasFreeSlot(loads)
             /\ loads' = [loads EXCEPT ![FreeSlot(loads)] =
                             [phase |-> "list", quiet |-> quiet, caller |-> caller]]
             /\ UNCHANGED <<templateModalOpen, busy, busyLabel>>

\* The workspace store, or the user, asks for the workspace templates.
loadWorkspaceTemplates ==
    /\ \E option \in {NullStr, <<"/", "w">>}, quiet \in BOOLEAN :
          startLoad(option, quiet, "user")
    /\ UNCHANGED coreVars
    /\ UNCHANGED <<client, selectedSessionId, prompt, pending>>
    /\ UNCHANGED <<workspaceRoot, templates, workspaceTemplatesLoaded,
                   globalTemplatesLoaded, templateDraftTitle, templateDraftDescription,
                   templateDraftPrompt, templateDraftScope, templateOps>>

\* The end of the try block: setTemplates, setWorkspaceTemplatesLoaded.
setLoadedUnsorted(slot, loaded) ==
    /\ templates' = unsorted(loaded) \o globalsOf(templates)
    /\ workspaceTemplatesLoaded' = TRUE
    /\ loads' = Settled(loads, slot)
    /\ loadReturnsTo(loads[slot].caller)

setLoaded(slot, loaded) ==
    /\ templates' = sortByCreatedAtDescending(loaded) \o globalsOf(templates)
    /\ workspaceTemplatesLoaded' = TRUE
    /\ loads' = Settled(loads, slot)
    /\ loadReturnsTo(loads[slot].caller)

loadFrame ==
    /\ UNCHANGED coreVars
    /\ UNCHANGED <<client, selectedSessionId, prompt, pending>>
    /\ UNCHANGED <<workspaceRoot, globalTemplatesLoaded, templateDraftTitle,
                   templateDraftDescription, templateDraftPrompt, templateDraftScope,
                   templateOps>>

\* c.file.list resolved with a listing.
listResolves(slot) ==
    /\ loads[slot] # NoCall
    /\ loads[slot].phase = "list"
    /\ \E nodes \in TemplateListings :
          IF jsonFiles(nodes) = <<>>
          THEN setLoaded(slot, <<>>)
          ELSE /\ loads' = [loads EXCEPT ![slot] =
                               [phase |-> "read", quiet |-> loads[slot].quiet,
                                caller |-> loads[slot].caller,
                                todo |-> jsonFiles(nodes), loaded |-> <<>>]]
               /\ UNCHANGED <<templates, workspaceTemplatesLoaded, templateModalOpen,
                              busy, busyLabel>>
    /\ loadFrame

\* c.file.read resolved for the next file.
readResolves(slot) ==
    /\ loads[slot] # NoCall
    /\ loads[slot].phase = "read"
    /\ LET loaded == pushLoaded(loads[slot].loaded, Head(loads[slot].todo), now)
           rest == Tail(loads[slot].todo)
       IN  IF rest = <<>>
           THEN setLoaded(slot, loaded)
           ELSE /\ loads' = [loads EXCEPT ![slot].todo = rest, ![slot].loaded = loaded]
                /\ UNCHANGED <<templates, workspaceTemplatesLoaded, templateModalOpen,
                               busy, busyLabel>>
    /\ loadFrame

\* c.file.list or c.file.read rejected, or unwrap threw: the catch block.
loadRejects(slot) ==
    /\ loads[slot] # NoCall
    /\ workspaceTemplatesLoaded' = TRUE
    /\ error' = IF loads[slot].quiet THEN error ELSE Thrown
    /\ loads' = Settled(loads, slot)
    /\ loadReturnsTo(loads[slot].caller)
    /\ UNCHANGED <<isTauri, sessions, sessionStatusById, localStorage>>
    /\ UNCHANGED <<client, selectedSessionId, prompt, pending>>
    /\ UNCHANGED <<workspaceRoot, templates, globalTemplatesLoaded, templateDraftTitle,
                   templateDraftDescription, templateDraftPrompt, templateDraftScope,
                   templateOps>>

loadListResolves == \E slot \in Slots : listResolves(slot)
loadReadResolves == \E slot \in Slots : readResolves(slot)
loadWorkspaceTemplatesRejects == \E slot \in Slots : loadRejects(slot)

\* createTemplateRecord(draft): a record with a new id, created now.
createTemplateRecord(id, title, description, text, scope) ==
    [id |-> id, title |-> title, description |-> description, prompt |-> text,
     createdAt |-> now, scope |-> scope]

templateIds == {templates[i].id : i \in 1..Len(templates)}

\* saveTemplate, up to its await of workspaceTemplateWrite; for the global
\* scope, which awaits nothing, to its end.
saveTemplateUnchecked ==
    LET title == Trim(templateDraftTitle)
        description == Trim(templateDraftDescription)
        text == Trim(templateDraftPrompt)
        scope == templateDraftScope
    IN  IF scope = "workspace"
        THEN /\ HasFreeSlot(templateOps)
             /\ busy' = TRUE
             /\ busyLabel' = "Saving workspace template"
             /\ error' = Null
             /\ templateOps' = [templateOps EXCEPT ![FreeSlot(templateOps)] =
                                   [op |-> "saveTemplate", root |-> Trim(workspaceRoot)]]
             /\ UNCHANGED <<templates, globalTemplatesLoaded, templateModalOpen>>
        ELSE /\ Len(globalsOf(templates)) < MaxTemplates
             /\ \E id \in NewTemplateIds \ templateIds :
                   templates' = <<createTemplateRecord(id, title, description, text, scope)>>
                                    \o templates
             /\ globalTemplatesLoaded' = TRUE
             /\ templateModalOpen' = FALSE
             /\ error' = Null
             /\ busy' = FALSE
             /\ busyLabel' = Null
             /\ UNCHANGED templateOps

saveTemplateChecked ==
    LET title == Trim(templateDraftTitle)
        text == Trim(templateDraftPrompt)
        scope == templateDraftScope
    IN  IF title = <<>> \/ text = <<>>
        THEN /\ error' = "Template title and prompt are required."
             /\ UNCHANGED <<busy, busyLabel, templates, globalTemplatesLoaded,
                            templateModalOpen, templateOps>>
        ELSE IF scope = "workspace" /\ ~isTauri
        THEN /\ error' = "Workspace templates require the desktop app."
             /\ UNCHANGED <<busy, busyLabel, templates, globalTemplatesLoaded,
                            templateModalOpen, templateOps>>
        ELSE IF scope = "workspace" /\ Trim(workspaceRoot) = <<>>
        THEN /\ error' = "Pick a workspace folder first."
             /\ UNCHANGED <<busy, busyLabel, templates, globalTemplatesLoaded,
                            templateModalOpen, templateOps>>
        ELSE saveTemplateUnchecked

saveTemplate ==
    /\ saveTemplateChecked
    /\ UNCHANGED <<isTauri, sessions, sessionStatusById, localStorage>>
    /\ UNCHANGED <<client, selectedSessionId, prompt, pending>>
    /\ UNCHANGED <<workspaceRoot, workspaceTemplatesLoaded, templateDraftTitle,
                   templateDraftDescription, templateDraftPrompt, templateDraftScope,
                   loads>>

\* deleteTemplate(templateId), up to its await of workspaceTemplateDelete; for
\* a template that is not of the workspace, to its end.
deleteTemplate ==
    /\ \E i \in 1..Len(templates) :
          LET templateId == templates[i].id
              first == CHOOSE j \in 1..Len(templates) :
                           /\ templates[j].id = templateId
                           /\ \A k \in 1..(j - 1) : templates[k].id # templateId
          IN  IF templates[first].scope = "workspace"
              THEN IF ~isTauri \/ Trim(workspaceRoot) = <<>>
                   THEN UNCHANGED <<error, busy, busyLabel, templates,
                                    globalTemplatesLoaded, templateOps>>
                   ELSE /\ HasFreeSlot(templateOps)
                        /\ busy' = TRUE
                        /\ busyLabel' = "Deleting template"
                        /\ error' = Null
                        /\ templateOps' = [templateOps EXCEPT ![FreeSlot(templateOps)] =
                                [op |-> "deleteTemplate", root |-> Trim(workspaceRoot)]]
                        /\ UNCHANGED <<templates, globalTemplatesLoaded>>
              ELSE /\ templates' = SelectSeq(templates, LAMBDA t : t.id # templateId)
                   /\ globalTemplatesLoaded' = TRUE
                   /\ UNCHANGED <<error, busy, busyLabel, templateOps>>
    /\ UNCHANGED <<isTauri, sessions, sessionStatusById, localStorage>>
    /\ UNCHANGED <<client, selectedSessionId, prompt, pending>>
    /\ UNCHANGED <<workspaceRoot, workspaceTemplatesLoaded, draftVars, loads>>

\* workspaceTemplateWrite or workspaceTemplateDelete resolved: the handler
\* calls loadWorkspaceTemplates({ workspaceRoot, quiet: true }) and awaits it.
templateOpResolves ==
    /\ \E slot \in Slots :
          /\ templateOps[slot] # NoCall
          /\ startLoad(templateOps[slot].root, TRUE, templateOps[slot].op)
          /\ templateOps' = Settled(templateOps, slot)
    /\ UNCHANGED coreVars
    /\ UNCHANGED <<client, selectedSessionId, prompt, pending>>
    /\ UNCHANGED <<workspaceRoot, templates, workspaceTemplatesLoaded,
                   globalTemplatesLoaded, templateDraftTitle, templateDraftDescription,
                   templateDraftPrompt, templateDraftScope>>

\* ... or rejected: the catch block and the finally block.
templateOpRejects ==
    /\ \E slot \in Slots :
          /\ templateOps[slot] # NoCall
          /\ templateOps' = Settled(templateOps, slot)
    /\ error' = Thrown
    /\ busy' = FALSE
    /\ busyLabel' = Null
    /\ UNCHANGED <<isTauri, sessions, sessionStatusById, localStorage>>
    /\ UNCHANGED <<client, selectedSessionId, prompt, pending>>
    /\ UNCHANGED <<workspaceRoot, templates, workspaceTemplatesLoaded,
                   globalTemplatesLoaded, draftVars, loads>>

----------------------------------------------------------------------------
(* MCP server names: validateMcpServerName, a pure function, applied to the  *)
(* names of a bounded set.                                                  *)

NameChars == {"a", "Z", "0", "-", "_", " ", "."}
RECURSIVE NamesOfLength(_)
NamesOfLength(n) ==
    IF n = 0 THEN {<<>>}
    ELSE {Append(name, c) : name \in NamesOfLength(n - 1), c \in NameChars}
ServerNames == UNION {NamesOfLength(n) : n \in 0..MaxNameLen}

Returned(value) == [returned |-> TRUE, value |-> value]
Threw(message) == [returned |-> FALSE, message |-> message]
NotCalled == [null |-> TRUE]

\* /^[A-Za-z0-9_-]+$/.test(s)
IsLetter(c) == \E i \in 1..26 : LowerCaseLetters[i] = c \/ UpperCaseLetters[i] = c
MatchesNamePattern(s) ==
    /\ Len(s) >= 1
    /\ \A i \in 1..Len(s) : IsLetter(s[i]) \/ IsDigit(s[i]) \/ s[i] \in {"_", "-"}

validateMcpServerNameUntrimmed(name) ==
    LET trimmed == Trim(name)
    IN  IF trimmed = <<>> THEN Threw("server_name is required")
        ELSE IF Head(trimmed) = "-" THEN Threw("server_name must not start with '-'")
        ELSE IF ~MatchesNamePattern(trimmed)
        THEN Threw("server_name must be alphanumeric with '-' or '_'")
        ELSE Returned(name)

validateMcpServerName(name) ==
    LET trimmed == Trim(name)
    IN  IF trimmed = <<>> THEN Threw("server_name is required")
        ELSE IF Head(trimmed) = "-" THEN Threw("server_name must not start with '-'")
        ELSE IF ~MatchesNamePattern(trimmed)
        THEN Threw("server_name must be alphanumeric with '-' or '_'")
        ELSE Returned(trimmed)

InitMcp ==
    /\ serverName = <<>>
    /\ validated = NotCalled
    /\ revalidated = NotCalled

\* The caller validates the name.
callValidateMcpServerName ==
    /\ validated = NotCalled
    /\ validated' = validateMcpServerName(serverName)
    /\ UNCHANGED <<serverName, revalidated>>

\* The caller validates the name it got back.
callValidateMcpServerNameAgain ==
    /\ validated # NotCalled
    /\ validated.returned
    /\ revalidated = NotCalled
    /\ revalidated' = validateMcpServerName(validated.value)
    /\ UNCHANGED <<serverName, validated>>

----------------------------------------------------------------------------
(* The application's life: a start restores the signals from localStorage  *)
(* and leaves every other signal at its initial value.                     *)

NoStatuses == [id \in SessionIds |-> "idle"]

InitResetModal ==
    /\ resetModalOpen = FALSE
    /\ resetModalText = <<>>
    /\ resetModalBusy = FALSE
    /\ resetPc = "idle"
    /\ resetStateCalls = 0
    /\ restarts = 0

\* A new process (or page) starts on the storage the previous one left.
StartApp ==
    /\ restarts' = restarts + 1
    /\ StartPrefs(localStorage)
    /\ StartPlugins
    /\ localStorage' = setItem(storageAfterStart(localStorage),
                               "openwork.projectDir", projectDir')
    /\ sessions' = {}
    /\ sessionStatusById' = NoStatuses
    /\ error' = Null
    /\ resetModalOpen' = FALSE
    /\ resetModalText' = <<>>
    /\ resetModalBusy' = FALSE
    /\ resetPc' = "idle"
    /\ StartBusy
    /\ StartUpdater(localStorage)
    /\ StartReload
    /\ StartPermissions
    /\ StartTemplates
    /\ UNCHANGED mcpVars
    /\ UNCHANGED <<isTauri, resetStateCalls>>

\* The user quits the app and opens it again.
ReopenApp ==
    /\ restarts < MaxRestarts
    /\ resetPc = "idle"
    /\ StartApp

----------------------------------------------------------------------------
(* Reset *)

RESET == <<"R","E","S","E","T">>
ResetTexts == {<<>>, RESET, <<" ","r","e","s","e","t"," ">>, <<"R","e","s","e","t">>, <<"R","E","S","E">>}

setResetModalText ==
    /\ \E t \in ResetTexts :
          /\ t # resetModalText
          /\ resetModalText' = t
    /\ UNCHANGED coreVars
    /\ UNCHANGED <<resetModalOpen, resetModalBusy, resetPc, resetStateCalls, restarts>>

closeResetModal ==
    /\ resetModalOpen
    /\ resetModalOpen' = FALSE
    /\ UNCHANGED coreVars
    /\ UNCHANGED <<resetModalText, resetModalBusy, resetPc, resetStateCalls, restarts>>

openResetModal ==
    /\ IF anyActiveRuns
       THEN /\ error' = "Stop active runs before resetting."
            /\ UNCHANGED <<resetModalText, resetModalOpen>>
       ELSE /\ error' = Null
            /\ resetModalText' = <<>>
            /\ resetModalOpen' = TRUE
    /\ UNCHANGED <<isTauri, sessions, sessionStatusById, localStorage>>
    /\ UNCHANGED <<resetModalBusy, resetPc, resetStateCalls, restarts>>

\* resetModalText().trim().toUpperCase() === "RESET"
resetTextConfirms == ToUpperCase(Trim(resetModalText)) = RESET

\* confirmReset, up to its first await (desktop) or to the reload (web).
confirmReset ==
    /\ resetStateCalls < MaxResetCalls
    /\ restarts < MaxRestarts
    /\ IF resetModalBusy THEN UNCHANGED <<coreVars, resetVars>>
       ELSE IF anyActiveRuns
       THEN /\ error' = "Stop active runs before resetting."
            /\ UNCHANGED <<isTauri, sessions, sessionStatusById, localStorage, resetVars>>
       ELSE IF ~resetTextConfirms THEN UNCHANGED <<coreVars, resetVars>>
       ELSE /\ resetModalBusy' = TRUE
            /\ error' = Null
            /\ IF isTauri
               THEN /\ resetStateCalls' = resetStateCalls + 1
                    /\ resetPc' = "resetOpenworkState"
                    /\ UNCHANGED localStorage
               ELSE /\ localStorage' = clearOpenworkLocalStorage(localStorage)
                    /\ resetPc' = "reload"
                    /\ UNCHANGED resetStateCalls
            /\ UNCHANGED <<isTauri, sessions, sessionStatusById>>
            /\ UNCHANGED <<resetModalOpen, resetModalText, restarts>>

\* resetOpenworkState resolved: the storage is cleared and relaunch is called.
resetOpenworkStateResolves ==
    /\ resetPc = "resetOpenworkState"
    /\ localStorage' = clearOpenworkLocalStorage(localStorage)
    /\ resetPc' = "relaunch"
    /\ UNCHANGED <<isTauri, sessions, sessionStatusById, error>>
    /\ UNCHANGED <<resetModalOpen, resetModalText, resetModalBusy, resetStateCalls, restarts>>

\* resetOpenworkState or relaunch rejected: the catch block.
resetRejects ==
    /\ resetPc \in {"resetOpenworkState", "relaunch"}
    /\ error' = Thrown
    /\ resetModalBusy' = FALSE
    /\ resetPc' = "idle"
    /\ UNCHANGED <<isTauri, sessions, sessionStatusById, localStorage>>
    /\ UNCHANGED <<resetModalOpen, resetModalText, resetStateCalls, restarts>>

\* relaunch() took effect, or the page reloaded: the app starts again.
relaunchOrReload ==
    /\ resetPc \in {"relaunch", "reload"}
    /\ StartApp

\* relaunch() of installUpdateAndRestart took effect.
relaunchAfterInstall ==
    /\ installPc = "relaunch"
    /\ StartApp

----------------------------------------------------------------------------
(* Specifications *)

InitCore ==
    /\ isTauri \in BOOLEAN
    /\ sessions = {}
    /\ sessionStatusById = NoStatuses
    /\ error = Null
    /\ \E ls \in InitialStorages :
          /\ localStorage = setItem(storageAfterStart(ls), "openwork.projectDir", <<>>)
          /\ InitPrefs(ls)
          /\ InitUpdater(ls)

Init ==
    /\ InitCore
    /\ InitResetModal
    /\ InitBusy
    /\ InitReload
    /\ InitPermissions
    /\ InitPlugins
    /\ InitTemplates
    /\ InitMcp

NoConfigFiles == [scope \in PluginScopes |-> MissingFile]
FreshStorage == setItem(storageAfterStart(<<>>), "openwork.projectDir", <<>>)

\* A start of the app in a project that has no opencode.json.
InitApp ==
    /\ Init
    /\ configFiles = NoConfigFiles

\* The first start of the app, on an empty localStorage.
InitFresh ==
    /\ InitApp
    /\ localStorage = FreshStorage

\* A start of the app on an empty localStorage, or on one that holds the time
\* of an earlier check.
CheckedStorage ==
    setItem(storageAfterStart(StorageOfCheckedApp), "openwork.projectDir", <<>>)
InitChecked ==
    /\ InitApp
    /\ localStorage \in {FreshStorage, CheckedStorage}

\* The first start of the app, with whatever opencode.json the project has.
InitAnyConfig ==
    /\ Init
    /\ localStorage = FreshStorage

\* Reset: the modal, confirmReset and the session statuses it reads.
NextReset ==
    \/ setResetModalText /\ UNCHANGED exceptReset
    \/ closeResetModal /\ UNCHANGED exceptReset
    \/ openResetModal /\ UNCHANGED exceptReset
    \/ confirmReset /\ UNCHANGED exceptReset
    \/ resetOpenworkStateResolves /\ UNCHANGED exceptReset
    \/ resetRejects /\ UNCHANGED exceptReset
    \/ relaunchOrReload
    \/ SessionStatusEvent /\ UNCHANGED <<resetVars, exceptReset>>
    \/ LoadSessions /\ UNCHANGED <<resetVars, exceptReset>>

SpecReset == InitApp /\ [][NextReset]_vars

\* Preferences: the setters, their persistence effects, and restarts.
NextPrefs ==
    \/ SetBaseUrl /\ UNCHANGED exceptPrefs
    \/ SetClientDirectory /\ UNCHANGED exceptPrefs
    \/ SetEngineSource /\ UNCHANGED exceptPrefs
    \/ applyModelSelection /\ UNCHANGED exceptPrefs
    \/ toggleShowThinking /\ UNCHANGED exceptPrefs
    \/ editModelVariant /\ UNCHANGED exceptPrefs
    \/ toggleUpdateAutoCheck /\ UNCHANGED exceptPrefs
    \/ ReopenApp

SpecPrefs == InitApp /\ [][NextPrefs]_vars

\* The busy indicator: the handlers that set and clear it.
NextBusy ==
    \/ setPrompt /\ UNCHANGED exceptBusy
    \/ workspaceTransitionStarts /\ UNCHANGED exceptBusy
    \/ workspaceTransitionEnds /\ UNCHANGED exceptBusy
    \/ sendPrompt /\ UNCHANGED exceptBusy
    \/ sendPromptReturns /\ UNCHANGED exceptBusy
    \/ createSessionAndOpen /\ UNCHANGED exceptBusy
    \/ createSessionAndOpenReturns /\ UNCHANGED exceptBusy
    \/ runTemplate /\ UNCHANGED exceptBusy
    \/ runTemplateReturns /\ UNCHANGED exceptBusy

SpecBusy == InitFresh /\ [][NextBusy]_vars

\* The daily check: onMount, checkForUpdates, the clock and restarts.
NextUpdate ==
    \/ onMount /\ UNCHANGED exceptUpdate
    \/ manualCheckForUpdates /\ UNCHANGED exceptUpdate
    \/ checkForUpdatesResolves /\ UNCHANGED exceptUpdate
    \/ checkForUpdatesRejects /\ UNCHANGED exceptUpdate
    \/ toggleUpdateAutoCheck /\ UNCHANGED exceptPrefs
    \/ timePasses /\ UNCHANGED exceptUpdate
    \/ ReopenApp

SpecUpdate == InitChecked /\ [][NextUpdate]_vars

\* Installing an update: check, download, install, and the session statuses
\* installUpdateAndRestart reads.
NextInstall ==
    \/ manualCheckForUpdates /\ UNCHANGED exceptUpdate
    \/ checkForUpdatesResolves /\ UNCHANGED exceptUpdate
    \/ checkForUpdatesRejects /\ UNCHANGED exceptUpdate
    \/ downloadUpdate /\ UNCHANGED exceptUpdate
    \/ downloadResolves /\ UNCHANGED exceptUpdate
    \/ downloadRejects /\ UNCHANGED exceptUpdate
    \/ installUpdateAndRestart /\ UNCHANGED exceptUpdate
    \/ installResolves /\ UNCHANGED exceptUpdate
    \/ installRejects /\ UNCHANGED exceptUpdate
    \/ relaunchAfterInstall
    \/ SessionStatusEvent /\ UNCHANGED <<updVars, exceptUpdate>>
    \/ LoadSessions /\ UNCHANGED <<updVars, exceptUpdate>>

SpecInstall == InitFresh /\ [][NextInstall]_vars

\* Engine reload: what reloadEngineInstance reads, and its calls.
NextReload ==
    \/ setMode /\ UNCHANGED exceptReload
    \/ setClient /\ UNCHANGED exceptBusy
    \/ reloadBecomesRequired /\ UNCHANGED exceptReload
    \/ reloadEngineInstance /\ UNCHANGED exceptReload
    \/ reloadEngineInstanceResolves /\ UNCHANGED exceptReload
    \/ reloadEngineInstanceRejects /\ UNCHANGED exceptReload
    \/ SessionStatusEvent /\ UNCHANGED <<reloadVars, exceptReload>>
    \/ LoadSessions /\ UNCHANGED <<reloadVars, exceptReload>>

SpecReload == InitFresh /\ [][NextReload]_vars

\* Permission prompts: the three buttons and the engine's answers.
NextPermissions ==
    \/ setClient /\ UNCHANGED exceptBusy
    \/ permissionAsked /\ UNCHANGED exceptPermissions
    \/ addAuthorizedDir /\ UNCHANGED exceptPermissions
    \/ removeAuthorizedDir /\ UNCHANGED exceptPermissions
    \/ denyOrAllowOnce /\ UNCHANGED exceptPermissions
    \/ allowForSession /\ UNCHANGED exceptPermissions
    \/ respondPermissionResolves /\ UNCHANGED exceptPermissions
    \/ respondPermissionRejects /\ UNCHANGED exceptPermissions
    \/ ReopenApp

SpecPermissions == InitFresh /\ [][NextPermissions]_vars

\* Plugins: addPlugin, one call at a time, and what it reads.
NextPlugins ==
    \/ setPluginInput /\ UNCHANGED exceptPlugins
    \/ setPluginScope /\ UNCHANGED exceptPlugins
    \/ setProjectDir /\ UNCHANGED exceptPlugins
    \/ addPluginFromInput /\ UNCHANGED exceptPlugins
    \/ addSuggestedPlugin /\ UNCHANGED exceptPlugins
    \/ addPluginReads /\ UNCHANGED exceptPlugins
    \/ addPluginWrites /\ UNCHANGED exceptPlugins
    \/ addPluginRefreshes /\ UNCHANGED exceptPlugins
    \/ addPluginRejects /\ UNCHANGED exceptPlugins

SpecPlugins == InitAnyConfig /\ [][NextPlugins]_vars

\* Plugins added from the list of suggestions, a second call of addPlugin
\* starting while the first one is awaiting.
NextOverlap ==
    \/ setPluginScope /\ UNCHANGED exceptPlugins
    \/ setProjectDir /\ UNCHANGED exceptPlugins
    \/ addSuggestedPlugin /\ UNCHANGED exceptPlugins
    \/ addPluginReads /\ UNCHANGED exceptPlugins
    \/ addPluginWrites /\ UNCHANGED exceptPlugins
    \/ addPluginRefreshes /\ UNCHANGED exceptPlugins
    \/ addPluginRejects /\ UNCHANGED exceptPlugins
    \/ otherCallSettlesNext /\ UNCHANGED exceptPlugins

SpecOverlap == InitAnyConfig /\ [][NextOverlap]_vars

\* The first start of the app, but for the templates and the server names.
InitRest ==
    /\ InitCore
    /\ localStorage = FreshStorage
    /\ InitResetModal
    /\ InitBusy
    /\ InitReload
    /\ InitPermissions
    /\ InitPlugins
    /\ configFiles = NoConfigFiles

\* The app with a template typed into the modal, before anything was loaded.
InitDrafted ==
    /\ InitRest
    /\ InitTemplateList
    /\ templateModalOpen = TRUE
    /\ templateDraftTitle = <<"T", " ">>
    /\ templateDraftDescription = <<>>
    /\ templateDraftPrompt = <<" ", "p">>
    /\ templateDraftScope \in TemplateScopes
    /\ InitMcp

\* Loading the workspace templates, and the handlers that change the list.
NextTemplates ==
    \/ setClient /\ UNCHANGED exceptBusy
    \/ setActiveWorkspaceRoot /\ UNCHANGED exceptTemplates
    \/ loadWorkspaceTemplates /\ UNCHANGED exceptTemplates
    \/ loadListResolves /\ UNCHANGED exceptTemplates
    \/ loadReadResolves /\ UNCHANGED exceptTemplates
    \/ loadWorkspaceTemplatesRejects /\ UNCHANGED exceptTemplates
    \/ saveTemplate /\ UNCHANGED exceptTemplates
    \/ deleteTemplate /\ UNCHANGED exceptTemplates
    \/ templateOpResolves /\ UNCHANGED exceptTemplates
    \/ templateOpRejects /\ UNCHANGED exceptTemplates

SpecTemplates == InitDrafted /\ [][NextTemplates]_vars

\* The desktop app with a global template drafted: the workspace templates
\* are loaded, several loads at a time, and global templates are saved.
InitGlobalDraft ==
    /\ InitDrafted
    /\ isTauri
    /\ templateDraftScope = "global"

NextLoad ==
    \/ setClient /\ UNCHANGED exceptBusy
    \/ loadWorkspaceTemplates /\ UNCHANGED exceptTemplates
    \/ loadListResolves /\ UNCHANGED exceptTemplates
    \/ loadReadResolves /\ UNCHANGED exceptTemplates
    \/ loadWorkspaceTemplatesRejects /\ UNCHANGED exceptTemplates
    \/ saveTemplate /\ UNCHANGED exceptTemplates

SpecLoad == InitGlobalDraft /\ [][NextLoad]_vars

\* Saving a template from the modal, with no engine connected: the draft,
\* the workspace root, saveTemplate and the desktop's answer to the write.
NextSave ==
    \/ setActiveWorkspaceRoot /\ UNCHANGED exceptTemplates
    \/ openTemplateModal /\ UNCHANGED exceptTemplates
    \/ closeTemplateModal /\ UNCHANGED exceptTemplates
    \/ setTemplateDraft /\ UNCHANGED exceptTemplates
    \/ saveTemplate /\ UNCHANGED exceptTemplates
    \/ templateOpResolves /\ UNCHANGED exceptTemplates
    \/ templateOpRejects /\ UNCHANGED exceptTemplates

SpecSave == InitFresh /\ [][NextSave]_vars

\* Validating MCP server names: a caller has a name of the bounded set.
InitNamed ==
    /\ InitRest
    /\ InitTemplates
    /\ serverName \in ServerNames
    /\ validated = NotCalled
    /\ revalidated = NotCalled

NextMcp ==
    \/ callValidateMcpServerName /\ UNCHANGED exceptMcp
    \/ callValidateMcpServerNameAgain /\ UNCHANGED exceptMcp

SpecMcp == InitNamed /\ [][NextMcp]_vars

----------------------------------------------------------------------------
(* C1 *)

ResetAllowed ==
    /\ ~resetModalBusy
    /\ \A s \in sessions : sessionStatusById[s] \notin {"running", "retry"}
    /\ ToUpperCase(Trim(resetModalText)) = RESET

ResetPerformed ==
    \/ resetStateCalls' # resetStateCalls
    \/ \E k \in DOMAIN localStorage :
          (StartsWithOpenwork(k) \/ k = LegacyModeKey) /\ k \notin DOMAIN localStorage'
    \/ restarts' # restarts

\* C1: confirmReset performs a reset (calls resetOpenworkState, clears the
\* OpenWork keys of localStorage, relaunches or reloads) only if, when it is
\* invoked, no reset is in progress, no listed session is running or in retry,
\* and the typed text, trimmed and upper-cased, is "RESET"; in every other
\* case nothing is cleared and the app is not restarted.  A step from the
\* idle handler is an invocation; a step of a suspended one continues an
\* invocation that passed the guards and holds resetModalBusy.
C1_ConfirmResetGuarded ==
    [][ /\ (resetPc = "idle" /\ (ResetPerformed \/ resetPc' # "idle")) => ResetAllowed
        /\ resetPc # "idle" => resetModalBusy /\ resetStateCalls' = resetStateCalls
      ]_vars

C1_Witness ==
    /\ resetPc = "relaunch"
    /\ resetStateCalls = 1
    /\ \A k \in DOMAIN localStorage : ~StartsWithOpenwork(k) /\ k # LegacyModeKey

----------------------------------------------------------------------------
(* C10 *)

AppStartsAgain == restarts' = restarts + 1

\* C10 as stated: preferences persist across restarts: for each of base URL,
\* client directory, engine source, default model, show-thinking flag, model
\* variant and update auto-check flag, the value the persistence effects wrote
\* is the value onMount restores at the next start, for every value the state
\* can hold (including an empty base URL and a cleared model variant).
C10_PreferencesPersist ==
    [][AppStartsAgain =>
          /\ baseUrl' = baseUrl
          /\ clientDirectory' = clientDirectory
          /\ engineSource' = engineSource
          /\ defaultModel' = defaultModel
          /\ showThinking' = showThinking
          /\ modelVariant' = modelVariant
          /\ updateAutoCheck' = updateAutoCheck
      ]_vars

\* C10 as amended: the same for every value the state can hold, except that an
\* empty base URL, which is written as the empty string, is restored as the
\* initial base URL http://127.0.0.1:4096.
C10_PreferencesPersistButEmptyBaseUrl ==
    [][AppStartsAgain =>
          /\ baseUrl' = IF baseUrl = <<>> THEN DefaultBaseUrl ELSE baseUrl
          /\ clientDirectory' = clientDirectory
          /\ engineSource' = engineSource
          /\ defaultModel' = defaultModel
          /\ showThinking' = showThinking
          /\ modelVariant' = modelVariant
          /\ updateAutoCheck' = updateAutoCheck
      ]_vars

C10_Witness ==
    /\ restarts = 1
    /\ baseUrl = OtherBaseUrl
    /\ clientDirectory # <<>>
    /\ engineSource = EngineSourceSidecar
    /\ defaultModel.modelID = <<"a","/","b">>
    /\ showThinking
    /\ modelVariant = <<"h","i","g","h">>
    /\ ~updateAutoCheck

----------------------------------------------------------------------------
(* C5 *)

\* C5: creating a new session is allowed even while a run is in progress:
\* newTaskDisabled is false whenever busy is true with busyLabel "Running", is
\* true whenever busy is true with any other label (Connecting, Starting
\* engine, Disconnecting, any other, or no label), and is false whenever busy
\* is false.
C5_NewTaskDisabled ==
    /\ (busy /\ busyLabel = "Running") => ~newTaskDisabled
    /\ (busy /\ busyLabel # "Running") => newTaskDisabled
    /\ ~busy => ~newTaskDisabled

C5_Witness ==
    /\ busy
    /\ busyLabel = "Running"
    /\ pending["sendPrompt"] > 0
    /\ ~newTaskDisabled

----------------------------------------------------------------------------
(* C2 *)

\* pending.update.install() is called
InstallCalled == installPc = "idle" /\ installPc' = "install"

\* C2: installUpdateAndRestart never calls install() while a session run is
\* active (status running or retry); called with an update pending and a run
\* active, it sets the error to "Stop active runs before installing an update."
\* and leaves updateStatus and pendingUpdate (and the install) as they are.
C2_InstallGuarded ==
    [][ /\ InstallCalled => ~anyActiveRuns
        /\ (installUpdateAndRestart /\ pendingUpdate # Null /\ anyActiveRuns) =>
              /\ error' = "Stop active runs before installing an update."
              /\ updateStatus' = updateStatus
              /\ pendingUpdate' = pendingUpdate
              /\ installPc' = installPc ]_vars

\* An install was refused: an update is pending and downloaded, a run is
\* active, the error is set and no install is in flight.
C2_Witness ==
    /\ pendingUpdate = NewVersion
    /\ updateStatus.state = "ready"
    /\ anyActiveRuns
    /\ error = "Stop active runs before installing an update."
    /\ installPc = "idle"

----------------------------------------------------------------------------
(* C6 *)

\* onMount passes its decision whether to call checkForUpdates({ quiet: true })
MountDecides == mountPc = "updaterEnvironment" /\ mountPc' # "updaterEnvironment"
QuietCheckStarted == mountPc' = "checked"

LastCheckedAtKnown ==
    IF updateStatus.state = "idle" THEN updateStatus.lastCheckedAt ELSE NoTime

StoredLastCheckedAt(ls) == getItem(ls, "openwork.updateLastCheckedAt")

----------------------------------------------------------------------------
(* C7 *)

\* The steps of calls of checkForUpdates
QuietCheckCalled == onMount /\ QuietCheckStarted
QuietCheckRejects(slot) == checks[slot] # NoCall /\ checks[slot].quiet /\ checkRejects(slot)
QuietCheckResolves(slot) ==
    /\ checks[slot] # NoCall
    /\ checks[slot].quiet
    /\ \E update \in {Null, NewVersion} : checkResolves(slot, update)
LoudCheckRejects(slot) == checks[slot] # NoCall /\ ~checks[slot].quiet /\ checkRejects(slot)
LoudCheckResolves(slot) ==
    /\ checks[slot] # NoCall
    /\ ~checks[slot].quiet
    /\ \E update \in {Null, NewVersion} : checkResolves(slot, update)
QuietCheckStep ==
    \/ QuietCheckCalled
    \/ \E slot \in Slots : QuietCheckRejects(slot) \/ QuietCheckResolves(slot)
LoudCheckStep ==
    \/ manualCheckForUpdates
    \/ \E slot \in Slots : LoudCheckRejects(slot) \/ LoudCheckResolves(slot)
Unsupported(env) == env # NoEnv /\ ~env.supported

\* What both readings of C7 share: a quiet check in an unsupported environment
\* changes nothing; a quiet check remembers the status it found; and when it
\* throws, updateStatus is that status again and pendingUpdate is untouched.
QuietCheckIsQuiet ==
    /\ (QuietCheckCalled /\ Unsupported(updateEnv')) =>
          /\ updateStatus' = updateStatus
          /\ pendingUpdate' = pendingUpdate
          /\ checks' = checks
          /\ error' = error
          /\ localStorage' = localStorage
    /\ (QuietCheckCalled /\ ~Unsupported(updateEnv')) =>
          \E slot \in Slots :
              /\ checks[slot] = NoCall
              /\ checks'[slot] = [quiet |-> TRUE, prev |-> updateStatus]
    /\ \A slot \in Slots :
          QuietCheckRejects(slot) =>
              /\ updateStatus' = checks[slot].prev
              /\ pendingUpdate' = pendingUpdate

\* C7, as stated: a quiet check never ends in the error state; only a
\* non-quiet check sets the error state, and then it clears pendingUpdate.
C7_QuietCheckNeverFails ==
    [][ /\ QuietCheckIsQuiet
        /\ QuietCheckStep => updateStatus'.state # "error"
        /\ (LoudCheckStep /\ updateStatus'.state = "error" /\ updateStatus' # updateStatus) =>
              pendingUpdate' = Null ]_vars

\* C7, amended: a quiet check never makes an error state of its own: it ends
\* in one only by leaving or restoring the one it found; a non-quiet check that throws
\* sets the error state and clears pendingUpdate, and a non-quiet check in an
\* unsupported environment sets the error state and leaves pendingUpdate.
C7_QuietCheckRestores ==
    [][ /\ QuietCheckIsQuiet
        /\ (QuietCheckStep /\ updateStatus'.state = "error") =>
              \/ updateStatus' = updateStatus
              \/ \E slot \in Slots :
                    /\ QuietCheckRejects(slot)
                    /\ checks[slot].prev.state = "error"
                    /\ updateStatus' = checks[slot].prev
        /\ \A slot \in Slots :
              LoudCheckRejects(slot) =>
                  /\ updateStatus' = Failed(NoTime, Thrown)
                  /\ pendingUpdate' = Null
        /\ (manualCheckForUpdates /\ isTauri /\ Unsupported(updateEnv)) =>
              /\ updateStatus'.state = "error"
              /\ pendingUpdate' = pendingUpdate ]_vars

\* A quiet check was started by onMount and threw: nothing is in flight, no
\* check ever resolved, and updateStatus is the idle status it found.
C7_Witness ==
    /\ isTauri
    /\ restarts = 0
    /\ mountPc = "checked"
    /\ ~Unsupported(updateEnv)
    /\ checks = NoCalls
    /\ lastCheckAt = NoTime
    /\ updateStatus = Idle(NoTime)
    /\ pendingUpdate = Null

----------------------------------------------------------------------------
(* C3 *)

\* c.instance.dispose() is called
DisposeCalled == reloadsInFlight' = reloadsInFlight + 1

\* C3: reloadEngineInstance never disposes the engine instance when the mode
\* is not host or a listed session is running or retrying; called with a
\* client in that situation it only sets reloadError, to the host-mode message
\* when the mode is not host and to the run-in-progress message otherwise, and
\* leaves reloadRequired, reloadReasons and reloadBusy unchanged.
C3_ReloadGuarded ==
    [][ /\ DisposeCalled => (mode = "host" /\ ~anyActiveRuns)
        /\ (reloadEngineInstance /\ client /\ (mode # "host" \/ anyActiveRuns)) =>
              /\ reloadError' = IF mode # "host"
                                THEN "Reload is only available in Host mode."
                                ELSE "A run is in progress. Stop it before reloading the engine."
              /\ reloadRequired' = reloadRequired
              /\ reloadReasons' = reloadReasons
              /\ reloadBusy' = reloadBusy
              /\ reloadsInFlight' = reloadsInFlight ]_vars

\* A reload was refused in host mode because of a run in progress.
C3_Witness ==
    /\ client
    /\ mode = "host"
    /\ anyActiveRuns
    /\ reloadRequired
    /\ reloadReasons = <<"plugins">>
    /\ reloadError = "A run is in progress. Stop it before reloading the engine."
    /\ reloadsInFlight = 0
    /\ ~reloadBusy

----------------------------------------------------------------------------
(* C4 *)

----------------------------------------------------------------------------
(* C8 *)

\* A plugin name with the version suffix stripped, compared case-insensitively
NormalisedName(name) == ToLowerCase(stripPluginVersion(name))

DuplicateFree(list) ==
    \A i, j \in 1..Len(list) :
        i # j => NormalisedName(list[i]) # NormalisedName(list[j])

ConfigsDuplicateFree ==
    \A scope \in PluginScopes :
        configFiles[scope].kind = "json" => DuplicateFree(configFiles[scope].plugin)

\* addPlugin has read a config that lists the requested plugin already.
ReadsListedPlugin ==
    /\ addPluginReads
    /\ LET config == configFiles[pluginCall.scope] IN
       /\ config.kind = "json"
       /\ config.hasPlugin
       /\ \E i \in 1..Len(config.plugin) :
             NormalisedName(config.plugin[i]) = NormalisedName(pluginCall.pluginName)

\* C8: addPlugin never lists a plugin twice.  When the config it read lists a
\* plugin of the same normalised name, it writes nothing (no write is issued
\* and no file changes), does not mark a reload as required, and sets the
\* status "Plugin already listed in opencode.json."; and every config stays
\* duplicate-free under that normalisation.
C8_NeverListedTwice ==
    /\ []ConfigsDuplicateFree
    /\ [][ ReadsListedPlugin =>
              /\ pluginCall' = NoCall
              /\ configFiles' = configFiles
              /\ reloadRequired' = reloadRequired
              /\ reloadReasons' = reloadReasons
              /\ pluginStatus' = "Plugin already listed in opencode.json." ]_vars

\* "A@1" was refused because the config lists "a" (added from " a "), and no
\* reload is required on account of the refused call.
C8_Witness ==
    /\ pluginStatus = "Plugin already listed in opencode.json."
    /\ pluginCall = NoCall
    /\ pluginInput = PluginAVersioned
    /\ configFiles["global"] = newConfig(PluginA)
    /\ pluginScope = "global"

----------------------------------------------------------------------------
(* C9 *)

\* C9: addPlugin patches only the plugin list.  Whenever a config file
\* changes, it is the file of the scope of the call in flight and no other; a
\* blank or missing file becomes exactly the $schema key and a plugin array
\* holding the new name; any other file keeps its other keys and its plugin
\* array becomes the list parsed before, in order, with the new name last.
C9_PatchesOnlyPluginList ==
    [][ \A scope \in PluginScopes :
          configFiles'[scope] # configFiles[scope] =>
              /\ pluginCall # NoCall
              /\ pluginCall.scope = scope
              /\ \A other \in PluginScopes \ {scope} :
                    configFiles'[other] = configFiles[other]
              /\ LET old == configFiles[scope]
                     new == configFiles'[scope]
                     name == pluginCall.pluginName
                 IN  IF old.kind \in {"missing", "blank"}
                     THEN new = [kind |-> "json", keys |-> {"$schema"},
                                 hasPlugin |-> TRUE, plugin |-> <<name>>]
                     ELSE /\ new.kind = "json"
                          /\ new.keys = old.keys
                          /\ new.hasPlugin
                          /\ new.plugin =
                                (IF old.hasPlugin THEN old.plugin ELSE <<>>) \o <<name>> ]_vars

\* A second plugin was appended to a config that had other keys and one plugin.
C9_Witness ==
    /\ configFiles["project"] =
          [kind |-> "json", keys |-> {"model"}, hasPlugin |-> TRUE,
           plugin |-> <<PluginAVersioned, PluginScoped>>]
    /\ pluginList = <<PluginAVersioned, PluginScoped>>
    /\ reloadRequired
    /\ pluginCall = NoCall

----------------------------------------------------------------------------
(* C11 *)

\* A call of loadWorkspaceTemplates ends its try block in this step
\* The step ends a call: one call fewer is in flight.
LoadReturns == InFlight(loads') < InFlight(loads)

\* A file that yields a template: text that parses, with a non-blank prompt
Qualifies(node) ==
    /\ node.content.type = "text"
    /\ node.content.parsed # NoJson
    /\ node.content.parsed.prompt # NullStr
    /\ Trim(node.content.parsed.prompt) # <<>>

\* The templates the call in slot has read once this step's file is read
ReadBy(slot) ==
    IF loads[slot].phase = "list" THEN <<>>
    ELSE pushLoaded(loads[slot].loaded, Head(loads[slot].todo), now)

Occurrences(list, x) == Cardinality({i \in 1..Len(list) : list[i] = x})
SameElements(a, b) ==
    /\ Len(a) = Len(b)
    /\ \A i \in 1..Len(a) : Occurrences(a, a[i]) = Occurrences(b, a[i])
Descending(list) ==
    \A i \in 1..Len(list), j \in 1..Len(list) :
        i < j => list[i].createdAt >= list[j].createdAt

\* C11: loadWorkspaceTemplates replaces only the workspace templates.  Reading
\* a file adds a template exactly when the file is text that parses and has a
\* non-blank prompt.  After a successful load the list is the templates read,
\* by createdAt descending, followed by exactly the global templates that were
\* in the list before, in their order, and workspaceTemplatesLoaded is true.
\* On failure the list is unchanged, workspaceTemplatesLoaded is true, and
\* the error is set exactly when the call is not quiet.
C11_LoadReplacesWorkspaceTemplates ==
    [][ \A slot \in Slots :
          (loads[slot] # NoCall /\ loads'[slot] # loads[slot]) =>
          /\ (readResolves(slot) \/ listResolves(slot)) =>
                LET before == IF loads[slot].phase = "list" THEN <<>>
                              ELSE loads[slot].loaded
                    read == ReadBy(slot)
                IN  /\ error' = error
                    /\ IF loads[slot].phase = "read" /\ Qualifies(Head(loads[slot].todo))
                       THEN /\ Len(read) = Len(before) + 1
                            /\ SubSeq(read, 1, Len(before)) = before
                            /\ read[Len(read)].prompt =
                                  Head(loads[slot].todo).content.parsed.prompt
                            /\ read[Len(read)].scope = "workspace"
                       ELSE read = before
                    /\ LoadReturns =>
                          LET n == Len(read) IN
                          /\ Len(templates') = n + Len(globalsOf(templates))
                          /\ SubSeq(templates', n + 1, Len(templates')) =
                                globalsOf(templates)
                          /\ SameElements(SubSeq(templates', 1, n), read)
                          /\ Descending(SubSeq(templates', 1, n))
                          /\ workspaceTemplatesLoaded'
          /\ loadRejects(slot) =>
                /\ templates' = templates
                /\ workspaceTemplatesLoaded'
                /\ error' = IF loads[slot].quiet THEN error ELSE Thrown ]_vars

\* A load put the newer workspace template before the older one, which the
\* listing had first, and kept the global template behind them.
C11_Witness ==
    /\ Len(templates) = 3
    /\ templates[1].scope = "workspace" /\ templates[1].createdAt = 2
    /\ templates[2].scope = "workspace" /\ templates[2].createdAt = 1
    /\ templates[3].scope = "global"
    /\ workspaceTemplatesLoaded
    /\ loads = NoCalls

----------------------------------------------------------------------------
(* C12 *)

TitleOrPromptMissing ==
    Trim(templateDraftTitle) = <<>> \/ Trim(templateDraftPrompt) = <<>>
NeedsDesktop == templateDraftScope = "workspace" /\ ~isTauri
NeedsWorkspace == templateDraftScope = "workspace" /\ Trim(workspaceRoot) = <<>>
InvalidDraft == TitleOrPromptMissing \/ NeedsDesktop \/ NeedsWorkspace

\* C12: saveTemplate rejects an invalid draft without side effects.  With a
\* blank title or prompt the error is "Template title and prompt are
\* required."; otherwise, for the workspace scope, it is "Workspace templates
\* require the desktop app." outside the desktop runtime and "Pick a workspace
\* folder first." with a blank workspace root.  In each case no write is
\* started, the list of templates, the modal and busy stay as they are.
C12_SaveRejectsInvalidDraft ==
    [][ (saveTemplate /\ InvalidDraft) =>
            /\ error' = IF TitleOrPromptMissing
                        THEN "Template title and prompt are required."
                        ELSE IF NeedsDesktop
                        THEN "Workspace templates require the desktop app."
                        ELSE "Pick a workspace folder first."
            /\ templateOps' = templateOps
            /\ templates' = templates
            /\ globalTemplatesLoaded' = globalTemplatesLoaded
            /\ templateModalOpen' = templateModalOpen
            /\ busy' = busy
            /\ busyLabel' = busyLabel ]_vars

\* saveTemplate refused a draft with a blank prompt while an earlier save was
\* still writing: the modal is open, busy is still set, one write is in flight.
C12_Witness ==
    /\ error = "Template title and prompt are required."
    /\ Trim(templateDraftTitle) # <<>>
    /\ Trim(templateDraftPrompt) = <<>>
    /\ templateModalOpen
    /\ busy
    /\ InFlight(templateOps) = 1
    /\ templates = <<>>

----------------------------------------------------------------------------
(* C13 *)

\* A name that is acceptable once trimmed: not empty, not starting with '-',
\* made of ASCII letters, digits, '-' and '_' only
AcceptableName(t) ==
    /\ t # <<>>
    /\ t[1] # "-"
    /\ \A i \in 1..Len(t) :
          \/ t[i] \in {"-", "_"}
          \/ \E k \in 1..26 : t[i] \in {LowerCaseLetters[k], UpperCaseLetters[k]}
          \/ \E d \in 1..10 : t[i] = Digits[d]

\* C13: validateMcpServerName returns the trimmed name exactly when the
\* trimmed name is acceptable; otherwise it throws "server_name is required"
\* for an empty trimmed name, else "server_name must not start with '-'" for
\* a leading '-', else the character-set error; and validating a name it
\* returned returns that name again.
C13_ValidatesServerName ==
    LET t == Trim(serverName)
    IN  /\ validated # NotCalled =>
              /\ validated.returned <=> AcceptableName(t)
              /\ validated.returned => validated.value = t
              /\ ~validated.returned =>
                    validated.message =
                        IF t = <<>> THEN "server_name is required"
                        ELSE IF t[1] = "-" THEN "server_name must not start with '-'"
                        ELSE "server_name must be alphanumeric with '-' or '_'"
        /\ revalidated # NotCalled => revalidated = validated

\* A padded name was validated, and so was the name returned for it.
C13_Witness ==
    /\ serverName = <<" ", "a", " ">>
    /\ validated = Returned(<<"a">>)
    /\ revalidated = Returned(<<"a">>)

----------------------------------------------------------------------------
(* C14 *)

\* The handlers of App that set busy and await the engine
AppBusyHandlers == {"sendPrompt", "createSessionAndOpen", "runTemplate"}

\* C14: busy stays true for as long as a busy-setting operation is in flight:
\* when a call of sendPrompt, createSessionAndOpen or runTemplate returns
\* while another of these calls still awaits the engine, busy is true after
\* the return.
C14_BusyWhileInFlight ==
    [][ (sendPromptReturns \/ createSessionAndOpenReturns \/ runTemplateReturns) =>
            ((\E h \in AppBusyHandlers : pending'[h] > 0) => busy') ]_vars

\* createSessionAndOpen was started while sendPrompt awaited the engine, and
\* returned first: its label is left, busy is false, sendPrompt still waits.
C14_Witness ==
    /\ pending["sendPrompt"] = 1
    /\ pending["createSessionAndOpen"] = 0
    /\ pending["runTemplate"] = 0
    /\ pending["workspace"] = 0
    /\ busyLabel = "Creating session"
    /\ ~busy

----------------------------------------------------------------------------
(* C15 *)

Lists(config, pluginName) ==
    LET plugins == parsePluginListFromContent(config) IN
    \E i \in 1..Len(plugins) : plugins[i] = pluginName

\* The other call of addPlugin has written the config with success and is
\* refreshing the lists; it is for the same config and another plugin.
OtherCallHasWritten ==
    /\ pluginCall # NoCall
    /\ otherPluginCall # NoCall
    /\ otherPluginCall.pc = "refreshPlugins"
    /\ otherPluginCall.scope = pluginCall.scope
    /\ otherPluginCall.pluginName # pluginCall.pluginName

\* C15: no plugin addition is lost.  When two calls of addPlugin for
\* different plugin names are in flight together and both write the config
\* with success, the config after the second write lists both plugins.
C15_NoAdditionLost ==
    [][ (addPluginWrites /\ OtherCallHasWritten) =>
            (/\ Lists(configFiles'[pluginCall.scope], pluginCall.pluginName)
             /\ Lists(configFiles'[pluginCall.scope], otherPluginCall.pluginName)) ]_vars

\* Both calls have written with success, the second of them from the config
\* it read before the first one wrote: the first call's plugin is gone.
C15_Witness ==
    /\ pluginCall # NoCall
    /\ otherPluginCall # NoCall
    /\ pluginCall.pc = "refreshPlugins"
    /\ otherPluginCall.pc = "refreshPlugins"
    /\ otherPluginCall.scope = pluginCall.scope
    /\ otherPluginCall.pluginName # pluginCall.pluginName
    /\ Lists(configFiles[pluginCall.scope], pluginCall.pluginName)
    /\ ~Lists(configFiles[pluginCall.scope], otherPluginCall.pluginName)

====
